---- MODULE Spec2Model ----
(***************************************************************************)
(* Transaction submission core of the reward backend:                      *)
(*   services/blockchain/nonce_manager.py   NonceManager                   *)
(*   services/blockchain/rate_limiter.py    RateLimiter                    *)
(*   services/blockchain/base_contract.py   BaseContractService            *)
(*   services/reward/xp_reward_v2.py        XpRewardServiceV2              *)
(*                                                                         *)
(* Time is counted in ticks, TicksPerSecond ticks to the second.  The      *)
(* bucket's real-valued token count is kept in units of 1/TicksPerSecond   *)
(* token, so that with refill_rate / refill_interval = 1 token per second  *)
(* one tick refills one unit.                                              *)
(***************************************************************************)
EXTENDS Integers, Sequences, FiniteSets, TLC

\* ------------------------------------------------------------------ bounds
TicksPerSecond == 1
TimeSpan == 7
MaxChainCount == 2
MaxNonce == 4
MaxBuilds == 2
MaxSubmits == 3
MaxFaults == 1
MaxQuoted == 12
IndexSubmits == 11
IndexSeconds == 18
TxSeconds == 1
ExecFaults == 4
ExecSeconds == 8
BurstSubmits == 4
BurstSeconds == 1
QuerySubmits == 2
GasSubmits == 2
FacadeSubmits == 2
RouteSeconds == 16
RouteChain == 5
RouteMaxRetries == 4
WaitSeconds == 2
WaitFaults == 4

\* ------------------------------------------------------- program constants
nonce_cache_ttl == 5
max_requests == 5
refill_rate == 1
refill_interval == 1
default_max_wait == 30

\* Python's None, for current_nonce and for a call that raised.
None == -1
NoThread == 0

Threads == {1, 2}
Seconds(s) == s * TicksPerSecond
\* time.time() counts from the epoch: far more than the TTL after 0.
StartTime == Seconds(nonce_cache_ttl + 1)
MaxTime == StartTime + TimeSpan

VARIABLES
    now,               \* time.time(), in ticks
    chain_count,       \* w3.eth.get_transaction_count(address): mined transactions
    current_nonce,     \* NonceManager.current_nonce
    last_update_time,  \* NonceManager.last_update_time
    nm_lock,           \* NonceManager.lock: the thread holding it, or NoThread
    nm_log,            \* the last two calls made on the NonceManager
    nm_handed,         \* the nonces get_next_nonce has returned
    nm_reused,         \* get_next_nonce has returned a nonce a second time
    tokens,            \* RateLimiter.tokens, in 1/TicksPerSecond token
    last_refill_time,  \* RateLimiter.last_refill_time
    acq,               \* per thread: its call of RateLimiter.acquire
    granted,           \* the acquire(1) calls that returned True, since construction
    sub,               \* per thread: its facade call and _send_transaction
    mempool,           \* the node's pending transactions (their hashes)
    receipts,          \* the mined transactions' receipts, by hash
    pending_transactions,  \* BaseContractService.pending_transactions
    transaction_details,   \* BaseContractService.transaction_details
    submitted,         \* facade calls started
    faults,            \* RPC failures injected
    route,             \* per thread: the HTTP route's retry loop
    qlog,              \* the last two answers of the ledger's read methods
    roles              \* the token contract's AccessControl: who holds a role

nonce_vars == <<chain_count, current_nonce, last_update_time, nm_lock, nm_log,
               nm_handed, nm_reused>>
rate_vars == <<tokens, last_refill_time, acq, granted>>
chain_vars == <<mempool, receipts>>
ledger_vars == <<pending_transactions, transaction_details>>
tx_vars == <<sub, chain_vars, ledger_vars, submitted, faults, route, qlog, roles>>
vars == <<now, nonce_vars, rate_vars, tx_vars>>

\* ------------------------------------------------------------ environment
\* The clock advances.
Tick ==
    /\ now < MaxTime
    /\ now' = now + 1

\* A transaction of the signer is mined: the chain's transaction count grows.
ChainMine ==
    /\ chain_count < MaxChainCount
    /\ chain_count' = chain_count + 1

\* ------------------------------------------------------------ NonceManager
\* Error texts, as sequences of words; a number is one word.
MinNoncePhrase == "minimum expected nonce is"
DigitWordOf(n) == ToString(n)
DigitWords == {DigitWordOf(n) : n \in 0..MaxQuoted}
IntOf(w) == CHOOSE n \in 0..MaxQuoted : DigitWordOf(n) = w

NonceErrorTexts ==
    {<<"nonce too low">>, <<"nonce too low", MinNoncePhrase>>}
    \cup {<<"nonce too low", MinNoncePhrase, d>> : d \in {"1", "3"}}
    \cup {<<MinNoncePhrase, "unknown", MinNoncePhrase, d>> : d \in {"2"}}

\* re.search(r"minimum expected nonce is (\d+)", error_message): the number
\* after the first place where the phrase is followed by digits, or None.
ExpectedNonce(msg) ==
    LET hits == {i \in 1..(Len(msg) - 1) :
                    msg[i] = MinNoncePhrase /\ msg[i + 1] \in DigitWords}
    IN IF hits = {} THEN None
       ELSE LET first == CHOOSE i \in hits : \A j \in hits : i <= j
            IN IntOf(msg[first + 1])

\* The cache test of get_next_nonce.
NeedsRefresh_unset(cur, last, t_now) == cur = None

NeedsRefresh(cur, last, t_now) ==
    cur = None \/ (t_now - last) > Seconds(nonce_cache_ttl)

\* One entry of nm_log: the call, its argument, what it returned, whether it
\* fell inside the TTL window of the last refresh, whether it asked the
\* chain for the transaction count (get_next_nonce does, to refresh) and
\* whether it fetched it.
NonceEvent(op, arg, ret, fetched) ==
    [op |-> op, arg |-> arg, ret |-> ret, fetched |-> fetched,
     asked |-> op = "get" /\ NeedsRefresh(current_nonce, last_update_time, now),
     in_ttl |-> (now - last_update_time) <= Seconds(nonce_cache_ttl)]

\* nm_log keeps the last two calls.
Logged(e) == IF Len(nm_log) < 2 THEN Append(nm_log, e) ELSE <<nm_log[2], e>>

\* get_next_nonce(): the whole critical section.  rpc_ok tells whether
\* get_transaction_count answers when the cache is refreshed.
get_next_nonce(t, rpc_ok) ==
    /\ nm_lock = NoThread
    /\ LET refresh == NeedsRefresh(current_nonce, last_update_time, now)
           fetched == refresh /\ rpc_ok
           raised == refresh /\ ~rpc_ok /\ current_nonce = None
           cur == IF fetched THEN chain_count ELSE current_nonce
       IN /\ raised \/ cur < MaxNonce
          /\ current_nonce' = IF raised THEN current_nonce ELSE cur + 1
          /\ last_update_time' = IF fetched THEN now ELSE last_update_time
          /\ nm_handed' = IF raised THEN nm_handed ELSE nm_handed \cup {cur}
          /\ nm_reused' = (nm_reused \/ (~raised /\ cur \in nm_handed))
          /\ nm_log' = Logged(NonceEvent("get", <<>>,
                                         IF raised THEN None ELSE cur, fetched))
    /\ UNCHANGED <<chain_count, nm_lock>>

\* reset_nonce(), called from outside the manager.
reset_nonce(t) ==
    /\ nm_lock = NoThread
    /\ current_nonce' = None
    /\ last_update_time' = 0
    /\ nm_log' = Logged(NonceEvent("reset", <<>>, None, FALSE))
    /\ UNCHANGED <<chain_count, nm_lock, nm_handed, nm_reused>>

\* handle_nonce_error taking the expected nonce for the one already used.
handle_nonce_error_next(t, msg) ==
    /\ nm_lock = NoThread
    /\ LET k == ExpectedNonce(msg)
       IN /\ k # None
          /\ current_nonce' = k + 1
          /\ nm_log' = Logged(NonceEvent("handle", msg, k, FALSE))
    /\ UNCHANGED <<chain_count, last_update_time, nm_lock, nm_handed, nm_reused>>

\* handle_nonce_error(error_message).  With the expected nonce in the text it
\* sets and returns it.  Otherwise it calls reset_nonce() while holding the
\* non-reentrant threading.Lock: the call never returns and the lock is
\* never released.
handle_nonce_error(t, msg) ==
    /\ nm_lock = NoThread
    /\ LET k == ExpectedNonce(msg)
       IN IF k # None
          THEN /\ current_nonce' = k
               /\ nm_lock' = nm_lock
               /\ nm_log' = Logged(NonceEvent("handle", msg, k, FALSE))
          ELSE /\ current_nonce' = current_nonce
               /\ nm_lock' = t
               /\ nm_log' = Logged(NonceEvent("handle", msg, None, FALSE))
    /\ UNCHANGED <<chain_count, last_update_time, nm_handed, nm_reused>>

\* ------------------------------------------------------------- RateLimiter
max_tokens == Seconds(max_requests)

\* _refill_tokens without the min(max_tokens, ...).
refill_tokens_uncapped(tok, last, t_now) ==
    LET refill_count == ((t_now - last) * refill_rate) \div refill_interval
    IN IF refill_count > 0
       THEN [tokens |-> tok + refill_count, last_refill_time |-> t_now]
       ELSE [tokens |-> tok, last_refill_time |-> last]

\* _refill_tokens without `self.last_refill_time = now`.
refill_tokens_unstamped(tok, last, t_now) ==
    LET refill_count == ((t_now - last) * refill_rate) \div refill_interval
    IN [tokens |-> IF tok + refill_count < max_tokens
                   THEN tok + refill_count ELSE max_tokens,
        last_refill_time |-> last]

\* _refill_tokens(): the bucket after a refill at time t_now.
refill_tokens(tok, last, t_now) ==
    LET elapsed == t_now - last
        refill_count == (elapsed * refill_rate) \div refill_interval
    IN IF refill_count > 0
       THEN [tokens |-> IF tok + refill_count < max_tokens
                        THEN tok + refill_count ELSE max_tokens,
             last_refill_time |-> t_now]
       ELSE [tokens |-> tok, last_refill_time |-> last]

\* The count of acquire(1) calls that returned True, after one more call for
\* n tokens has returned ret.
Granted(n, ret) ==
    IF n = 1 /\ ret THEN [granted EXCEPT !.count = @ + 1] ELSE granted

IdleAcquire == [pc |-> "idle", n |-> 0, wait |-> TRUE, max_wait |-> 0,
                wait_time |-> 0, wake |-> 0, slept |-> FALSE, ret |-> FALSE]

\* acquire(tokens=n, wait, max_wait), up to its return or its sleep: the
\* first critical section.
acquire_enter(t, n, wait, max_wait) ==
    /\ acq[t].pc \in {"idle", "returned"}
    /\ LET b == refill_tokens(tokens, last_refill_time, now)
           need == Seconds(n)
           wait_time == ((need - b.tokens) * refill_interval) \div refill_rate
           call == [pc |-> "returned", n |-> n, wait |-> wait,
                    max_wait |-> max_wait, wait_time |-> 0, wake |-> 0,
                    slept |-> FALSE, ret |-> FALSE]
       IN /\ last_refill_time' = b.last_refill_time
          /\ granted' = Granted(n, b.tokens >= need)
          /\ IF b.tokens >= need
             THEN /\ tokens' = b.tokens - need
                  /\ acq' = [acq EXCEPT ![t] = [call EXCEPT !.ret = TRUE]]
             ELSE /\ tokens' = b.tokens
                  /\ IF ~wait
                     THEN acq' = [acq EXCEPT ![t] = call]
                     ELSE IF wait_time > Seconds(max_wait)
                     THEN acq' = [acq EXCEPT ![t] =
                                     [call EXCEPT !.wait_time = wait_time]]
                     ELSE acq' = [acq EXCEPT ![t] =
                                     [call EXCEPT !.pc = "sleeping",
                                                  !.wait_time = wait_time,
                                                  !.wake = now + wait_time]]

\* An acquire that goes back to sleep when the tokens are still missing.
acquire_wake_again(t) ==
    /\ acq[t].pc = "sleeping"
    /\ now >= acq[t].wake
    /\ LET b == refill_tokens(tokens, last_refill_time, now)
           need == Seconds(acq[t].n)
       IN /\ last_refill_time' = b.last_refill_time
          /\ granted' = Granted(acq[t].n, b.tokens >= need)
          /\ tokens' = IF b.tokens >= need THEN b.tokens - need ELSE b.tokens
          /\ acq' = IF b.tokens >= need
                    THEN [acq EXCEPT ![t].pc = "returned", ![t].slept = TRUE,
                                     ![t].ret = TRUE]
                    ELSE [acq EXCEPT ![t].slept = TRUE, ![t].wake = now + 1]

\* acquire after time.sleep(wait_time): the second critical section.
acquire_wake(t) ==
    /\ acq[t].pc = "sleeping"
    /\ now >= acq[t].wake
    /\ LET b == refill_tokens(tokens, last_refill_time, now)
           need == Seconds(acq[t].n)
       IN /\ last_refill_time' = b.last_refill_time
          /\ granted' = Granted(acq[t].n, b.tokens >= need)
          /\ tokens' = IF b.tokens >= need THEN b.tokens - need ELSE b.tokens
          /\ acq' = [acq EXCEPT ![t].pc = "returned", ![t].slept = TRUE,
                                ![t].ret = (b.tokens >= need)]

\* ------------------------------------------------------------ the facade
Addresses == {"a1", "a2"}
BadAddress == "not-an-address"

\* "field not set" in a record that holds numbers; no transaction, no text.
NoHash == <<>>
NoBlock == [ok |-> FALSE, has_base |-> FALSE, base |-> 0]
NoTx == [nonce |-> None, gas |-> None, gasPrice |-> None,
         maxFeePerGas |-> None, maxPriorityFeePerGas |-> None]
NoResult == [status |-> "none", error_category |-> "none", tx_hash |-> NoHash,
             error |-> <<>>, quoted |-> NoHash, token_id |-> None]

\* What a call may answer: a value, or an error with its text and the hash
\* the text quotes (re.search(r'0x[a-fA-F0-9]{64}', str(e))).
Answer(value) == [ok |-> TRUE, text |-> <<>>, hash |-> value]
Failure(text, quoted) == [ok |-> FALSE, text |-> text, hash |-> quoted]
NoAnswer == Failure(<<>>, NoHash)

\* A thread's facade call: its position, its locals (sent: what the send
\* ended with; raised: the error the rate limiter is retrying after) and,
\* once it has returned, its result.  A result's 'error' is the error's
\* string: its phrases in `error`, the transaction hash it quotes in `quoted`.
\* A key the response does not have is "none", NoHash or None.
IdleSub == [pc |-> "idle", op |-> "none", arg |-> None, xp_amount |-> None,
            addr |-> "none", est |-> None, gas_price |-> None,
            block |-> NoBlock, tx |-> NoTx, hash |-> NoHash, attempt |-> 0,
            wake |-> 0, sent |-> NoAnswer, raised |-> <<>>, result |-> NoResult]

\* A facade call that has returned `result`: its locals are gone.
Returned(result) == [IdleSub EXCEPT !.pc = "returned", !.result = result]
ErrorResultWith(category, hash, text) ==
    [status |-> "error", error_category |-> category, tx_hash |-> hash,
     error |-> text, quoted |-> NoHash, token_id |-> None]
ErrorResult(category, hash) == ErrorResultWith(category, hash, <<>>)

\* self.w3.to_wei('1', 'gwei')
one_gwei == 1000000000

\* gas_limit = int(gas_estimate * 1.2) without the 20 % buffer.
gas_limit_unbuffered(gas_estimate) == gas_estimate

\* gas_limit = int(gas_estimate * 1.2).  1.2 is the double just below 6/5;
\* the product rounds to 6e/5 when that is an integer and keeps its integer
\* part otherwise, so int() gives the floor of 6e/5.
gas_limit_of(gas_estimate) == (gas_estimate * 6) \div 5

\* _get_eip1559_fees with max_fee = base_fee + priority_fee.
get_eip1559_fees_single(latest_block) ==
    IF latest_block.ok /\ latest_block.has_base
    THEN [max_fee |-> latest_block.base + one_gwei, priority_fee |-> one_gwei,
          base_fee |-> latest_block.base, use_eip1559 |-> TRUE]
    ELSE [max_fee |-> 0, priority_fee |-> 0, base_fee |-> 0,
          use_eip1559 |-> FALSE]

\* _get_eip1559_fees(): latest_block is what w3.eth.get_block('latest')
\* answered (ok = FALSE: it raised).
get_eip1559_fees(latest_block) ==
    IF latest_block.ok /\ latest_block.has_base
    THEN [max_fee |-> latest_block.base * 2 + one_gwei,
          priority_fee |-> one_gwei,
          base_fee |-> latest_block.base, use_eip1559 |-> TRUE]
    ELSE [max_fee |-> 0, priority_fee |-> 0, base_fee |-> 0,
          use_eip1559 |-> FALSE]

\* func.build_transaction({...}) of the facade operations.
build_transaction(gas_limit, gas_price, nonce, fees) ==
    IF fees.use_eip1559
    THEN [nonce |-> nonce, gas |-> gas_limit, gasPrice |-> None,
          maxFeePerGas |-> fees.max_fee,
          maxPriorityFeePerGas |-> fees.priority_fee]
    ELSE [nonce |-> nonce, gas |-> gas_limit, gasPrice |-> gas_price,
          maxFeePerGas |-> None, maxPriorityFeePerGas |-> None]

\* A simulation that lets every transaction pass.
simulate_transaction_unchecked(call_ok) == TRUE

\* _simulate_transaction(tx_data): w3.eth.call of the built transaction;
\* FALSE when it raises (a revert or any other error of the call).
simulate_transaction(call_ok) == call_ok

\* award_xp(address, activity_type) up to the call of _send_transaction:
\* validation, role check, gas estimate, gas price, nonce, fees, build and
\* simulation.  has_role is what check_minter_role() answered, est the gas
\* estimate (None: estimate_gas raised), block the latest block, sim_ok
\* whether the eth_call of _simulate_transaction went through.
award_xp(t, address, has_role, est, gas_price, block, sim_ok, cap) ==
    /\ sub[t].pc \in {"idle", "returned"}
    /\ submitted < cap
    /\ submitted' = submitted + 1
    /\ IF address = BadAddress
       THEN sub' = [sub EXCEPT ![t] = Returned(ErrorResult("unexpected_error", NoHash))]
       ELSE IF ~has_role
       THEN sub' = [sub EXCEPT ![t] = Returned(ErrorResult("permission_error", NoHash))]
       ELSE IF est = None \/ ~simulate_transaction(sim_ok)
       THEN sub' = [sub EXCEPT ![t] = Returned(ErrorResult("unexpected_error", NoHash))]
       ELSE sub' = [sub EXCEPT ![t] =
                [IdleSub EXCEPT !.pc = "built", !.addr = address, !.est = est,
                     !.gas_price = gas_price, !.block = block,
                     !.tx = build_transaction(gas_limit_of(est), gas_price,
                                chain_count, get_eip1559_fees(block))]]

\* ---------------------------------------------------------------- the node
\* The hash of the signed transaction: signing is deterministic, so the same
\* fields give the same hash.
TxHash(tx, address) ==
    <<tx.nonce, address, tx.gas, tx.gasPrice, tx.maxFeePerGas>>
NonceOf(h) == h[1]

\* Error texts of the RPC, as sequences of phrases.
TooManyRequests == <<"429 Too Many Requests">>
ConnectionError == <<"connection error">>
NotInChain == <<"is not in the chain after 120 seconds">>
RateLimitExceeded == <<"Rate limit exceeded and maximum wait time reached">>

\* `sub in str(e).lower()`, for the substrings the code looks for.
PhrasesWith(word) ==
    CASE word = "nonce" -> {"nonce too low", MinNoncePhrase}
      [] word = "low" -> {"nonce too low"}
      [] word = "nonce too low" -> {"nonce too low"}
      [] word = "already known" -> {"already known"}
      [] word = "already exists" -> {"already exists"}
      [] word = "429" -> {"429 Too Many Requests"}
      [] word = "Too Many Requests" -> {"429 Too Many Requests"}
      [] word = "timeout" -> {}
      [] word = "rate limit" ->
            {"Rate limit exceeded and maximum wait time reached"}
      [] OTHER -> {}
Contains(text, word) == \E i \in 1..Len(text) : text[i] \in PhrasesWith(word)

TransportFailures == {Failure(TooManyRequests, NoHash), Failure(ConnectionError, NoHash)}

\* w3.eth.send_raw_transaction of the transaction with hash h, as the node
\* decides it: a nonce below the count of mined transactions is too low; a
\* transaction it already holds is known; another one with the same nonce is
\* an underpriced replacement; otherwise the transaction enters the mempool.
SendAnswers(h) ==
    IF NonceOf(h) < chain_count
    THEN {Failure(<<"nonce too low">>, NoHash),
          Failure(<<"nonce too low", MinNoncePhrase, DigitWordOf(chain_count)>>, NoHash)}
    ELSE IF h \in mempool
    THEN {Failure(<<phrase>>, quoted) :
             phrase \in {"already known", "already exists"},
             quoted \in {h, NoHash}}
    ELSE IF \E g \in mempool : NonceOf(g) = NonceOf(h)
    THEN {Failure(<<"replacement transaction underpriced">>, NoHash)}
    ELSE {Answer(h)}

\* w3.eth.wait_for_transaction_receipt(h, timeout=120): the receipt once the
\* transaction is mined, TimeExhausted while it is not.
ReceiptAnswers(h) ==
    IF h \in DOMAIN receipts THEN {Answer(h)} ELSE {Failure(NotInChain, NoHash)}

\* The node mines the pending transaction h: status 1 or 0, some gas used.
Mine(h, status, gas_used) ==
    /\ h \in mempool
    /\ NonceOf(h) = chain_count
    /\ chain_count' = chain_count + 1
    /\ mempool' = {g \in mempool : NonceOf(g) # NonceOf(h)}
    /\ receipts' = receipts @@ (h :> [status |-> status,
                                      blockNumber |-> chain_count + 1,
                                      gasUsed |-> gas_used])

\* ------------------------------------------------ the other facade calls
\* self.account.address, the address update_reward_rate and update_metadata
\* track their transactions under.
Signer == "signer"

\* contract.functions.hasRole(role, account).call(): the answer, or an error.
HasRoleAnswers(holds) == {IF holds THEN "yes" ELSE "no", "raises"}

\* check_minter_role: an error counts as not holding the role.
check_minter_role(answer) == answer = "yes"

InvalidAddress == <<"Invalid Ethereum address">>
NoMinterRole == <<"Account does not have MINTER_ROLE required to award XP">>
NoAdminRole == <<"Account does not have DEFAULT_ADMIN_ROLE">>
NotPositive == <<"must be positive">>
InvalidTokenId == <<"Invalid token ID">>
SimulationFailed == <<"Transaction simulation failed">>
NotQualified(xp_amount) ==
    <<"XP amount", ToString(xp_amount), "does not qualify for any achievement level">>

\* The response of a facade call's own except branch; grant_minter_role's
\* has status, message and tx_hash only.
FacadeError(op, text) ==
    ErrorResultWith(IF op = "grant_minter_role" THEN "none" ELSE "unexpected_error",
                    NoHash, text)

\* grant_minter_role on an address that holds the role already.
AlreadyGranted == [NoResult EXCEPT !.status = "success"]

default_gas_limit == 300000

\* The keys of the dict _send_transaction returns for a mined transaction.
SendResultKeys ==
    {"tx_hash", "block", "status", "gas_used", "gas_limit", "gas_efficiency",
     "duration_ms", "timestamp", "block_timestamp", "transaction_index",
     "details", "gas_price", "gas_price_wei", "max_fee_per_gas",
     "max_priority_fee_per_gas", "max_fee_per_gas_wei",
     "max_priority_fee_per_gas_wei", "transaction_type", "decoded_logs", "error"}

\* The logs in the receipt of the mintAchievement transaction h, topics as
\* integers: an Approval with three topics, then the ERC-721 Transfer whose
\* fourth topic is the token id (the contract counts tokens from 1).
MintLogs(h) ==
    << [topics |-> <<2, 0, 1>>], [topics |-> <<1, 0, 1, NonceOf(h) + 1>>] >>

\* Lines 170-177: the last topic of the first log with four topics.
token_id_of(logs) ==
    IF \E i \in 1..Len(logs) : Len(logs[i].topics) = 4
    THEN LET i == CHOOSE k \in 1..Len(logs) :
                     /\ Len(logs[k].topics) = 4
                     /\ \A j \in 1..(k - 1) : Len(logs[j].topics) # 4
         IN logs[i].topics[4]
    ELSE None

\* What a facade call makes of the result of _send_transaction for the
\* transaction h.
Finish(op, h, result) ==
    IF op = "grant_minter_role"
    THEN [result EXCEPT !.status = IF @ = "success" THEN "success" ELSE "error",
                        !.error_category = "none"]
    ELSE IF op = "mint_achievement"
    THEN [result EXCEPT !.token_id =
             IF result.status = "success" /\ "tx_receipt" \in SendResultKeys
             THEN token_id_of(MintLogs(h)) ELSE None]
    ELSE result

\* A facade call starts: at most `cap` of them.
Starts(t, cap) ==
    /\ sub[t].pc \in {"idle", "returned"}
    /\ submitted < cap
    /\ submitted' = submitted + 1

\* The call has done its local checks and is about to make its first RPC call.
Calling(op, arg, address) ==
    [IdleSub EXCEPT !.pc = "calling", !.op = op, !.arg = arg, !.addr = address]

award_custom_xp(t, address, amount, cap) ==
    /\ Starts(t, cap)
    /\ sub' = [sub EXCEPT ![t] =
          IF address = BadAddress
          THEN Returned(FacadeError("award_custom_xp", InvalidAddress))
          ELSE Calling("award_custom_xp", amount, address)]

update_reward_rate(t, new_rate, cap) ==
    /\ Starts(t, cap)
    /\ sub' = [sub EXCEPT ![t] = Calling("update_reward_rate", new_rate, Signer)]

grant_minter_role(t, address, cap) ==
    /\ Starts(t, cap)
    /\ sub' = [sub EXCEPT ![t] = Calling("grant_minter_role", None, address)]

\* mint_achievement's local checks, for the level achievement_type;
\* xp_amount is that of the award_achievement_by_xp that called it, or None.
mint_achievement_checked(address, achievement_type, xp_amount) ==
    IF address = BadAddress
    THEN Returned(FacadeError("mint_achievement", InvalidAddress))
    ELSE [Calling("mint_achievement", achievement_type, address)
             EXCEPT !.xp_amount = xp_amount]

mint_achievement(t, address, achievement_type, cap) ==
    /\ Starts(t, cap)
    /\ sub' = [sub EXCEPT ![t] =
                   mint_achievement_checked(address, achievement_type, None)]

update_metadata(t, token_id, cap) ==
    /\ Starts(t, cap)
    /\ sub' = [sub EXCEPT ![t] =
          IF token_id < 0
          THEN Returned(FacadeError("update_metadata", InvalidTokenId))
          ELSE Calling("update_metadata", token_id, Signer)]

\* self.achievement_thresholds, by int(AchievementType) + 1: BEGINNER,
\* INTERMEDIATE, ADVANCED, EXPERT, MASTER.  Sorting the levels by threshold
\* leaves them in this order.
achievement_thresholds == <<100, 500, 750, 1000, 2000>>

\* A scan that stops at the first level reached.
ScanLevels_first(thresholds, xp_amount, i, achievement_type) ==
    IF xp_amount >= thresholds[1] THEN 0 ELSE achievement_type

RECURSIVE ScanLevels(_, _, _, _)
ScanLevels(thresholds, xp_amount, i, achievement_type) ==
    IF i > Len(thresholds) THEN achievement_type
    ELSE IF xp_amount >= thresholds[i]
    THEN ScanLevels(thresholds, xp_amount, i + 1, i - 1)
    ELSE achievement_type

achievement_level_lenient(xp_amount) ==
    ScanLevels(achievement_thresholds, xp_amount + 1, 1, None)

\* Lines 383-388: the highest level whose threshold xp_amount reaches, None
\* when it reaches none.
achievement_level(xp_amount) ==
    ScanLevels(achievement_thresholds, xp_amount, 1, None)

award_achievement_by_xp(t, address, xp_amount, cap) ==
    /\ Starts(t, cap)
    /\ sub' = [sub EXCEPT ![t] =
          IF achievement_level(xp_amount) = None
          THEN Returned(ErrorResultWith("validation_error", NoHash,
                                        NotQualified(xp_amount)))
          ELSE mint_achievement_checked(address, achievement_level(xp_amount),
                                        xp_amount)]

already_has_role_ignored(role) == FALSE

\* grant_minter_role, lines 197-203: has_role.
already_has_role(role) == role = "yes"

\* The RPC calls of a facade call up to its built transaction: hasRole for
\* the signer's role (admin: DEFAULT_ADMIN_ROLE; role: MINTER_ROLE, of the
\* address for grant_minter_role), estimate_gas (None: it raised), gas_price,
\* get_transaction_count, get_block, eth_call.
facade_calls(t, admin, role, est, gas_price, block, sim_ok) ==
    LET s == sub[t]
        op == s.op
        failed(text) == Returned(FacadeError(op, text))
        built(gas_limit) ==
            [s EXCEPT !.pc = "built", !.est = est, !.gas_price = gas_price,
                      !.block = block,
                      !.tx = build_transaction(gas_limit, gas_price, chain_count,
                                               get_eip1559_fees(block))]
        estimated ==
            IF est = None /\ op # "update_reward_rate" THEN failed(ConnectionError)
            ELSE IF ~simulate_transaction(sim_ok) THEN failed(SimulationFailed)
            ELSE built(IF est = None THEN default_gas_limit ELSE gas_limit_of(est))
    IN /\ s.pc = "calling"
       /\ sub' = [sub EXCEPT ![t] =
             CASE op = "award_custom_xp" ->
                    IF ~check_minter_role(role) THEN failed(NoMinterRole)
                    ELSE IF s.arg <= 0 THEN failed(NotPositive)
                    ELSE estimated
               [] op = "update_reward_rate" ->
                    IF admin = "raises" THEN failed(ConnectionError)
                    ELSE IF admin = "no" THEN failed(NoAdminRole)
                    ELSE IF s.arg <= 0 THEN failed(NotPositive)
                    ELSE estimated
               [] op = "grant_minter_role" ->
                    IF admin = "raises" THEN failed(ConnectionError)
                    ELSE IF admin = "no" THEN failed(NoAdminRole)
                    ELSE IF role = "raises" THEN failed(ConnectionError)
                    ELSE IF already_has_role(role) THEN Returned(AlreadyGranted)
                    ELSE estimated
               [] OTHER -> estimated]

\* ---------------------------------------------------- _send_transaction
max_tracked == 10
retry_count == 3
backoff_factor == 2

Pow(b, e) == IF e = 0 THEN 1 ELSE IF e = 1 THEN b ELSE IF e = 2 THEN b * b ELSE b * b * b

\* Lines 262-279: the hash is appended to the address's list and its record
\* is (re)written as pending.
RecordPending(s, h) ==
    /\ pending_transactions' =
          IF s.addr \in DOMAIN pending_transactions
          THEN [pending_transactions EXCEPT ![s.addr] = Append(@, h)]
          ELSE pending_transactions @@ (s.addr :> <<h>>)
    /\ transaction_details' =
          [g \in DOMAIN transaction_details \cup {h} |->
              IF g = h
              THEN [address |-> s.addr, status |-> "pending",
                    transaction_found |-> TRUE, gas_limit |-> s.tx.gas,
                    nonce |-> s.tx.nonce, error |-> <<>>,
                    block_number |-> None, gas_used |-> None]
              ELSE transaction_details[g]]

\* _send_transaction from its start to the call of execute_with_rate_limit:
\* the transaction is signed (lines 193-216).
send_transaction(t) ==
    /\ sub[t].pc = "built"
    /\ sub' = [sub EXCEPT ![t].pc = "send_acquire", ![t].attempt = 0, ![t].wake = 0]

\* Lines 226-279 after execute_with_rate_limit(send_tx) has ended with `a`:
\* the hash it returned, or the error it raised.
DuplicateHash_blind(a) ==
    IF Contains(a.text, "already known") \/ Contains(a.text, "already exists")
    THEN <<0, "none", 0, 0, 0>> ELSE NoHash

\* Lines 244-257: the hash a duplicate's error quotes, NoHash when the error
\* is not a duplicate's or quotes none.
DuplicateHash(a) ==
    IF Contains(a.text, "already known") \/ Contains(a.text, "already exists")
    THEN a.hash ELSE NoHash

\* An outcome of the send that records the transaction whatever the answer.
AfterSend_recording(t, a) ==
    /\ RecordPending(sub[t], TxHash(sub[t].tx, sub[t].addr))
    /\ sub' = [sub EXCEPT ![t] =
                   Returned(ErrorResultWith("unexpected_error", NoHash, a.text))]
    /\ UNCHANGED nonce_vars

AfterSend(t, a) ==
    LET s == sub[t]
        nonce_low == Contains(a.text, "nonce") /\ Contains(a.text, "low")
        tx_hash == IF a.ok THEN a.hash ELSE DuplicateHash(a)
    IN IF a.ok \/ (~nonce_low /\ tx_hash # NoHash)
       THEN /\ RecordPending(s, tx_hash)
            /\ sub' = [sub EXCEPT ![t].pc = "receipt_acquire", ![t].hash = tx_hash,
                                  ![t].attempt = 0, ![t].wake = 0,
                                  ![t].sent = a, ![t].raised = <<>>]
            /\ UNCHANGED nonce_vars
       ELSE IF nonce_low
       THEN /\ UNCHANGED ledger_vars
            /\ IF nm_lock = NoThread
               THEN /\ handle_nonce_error(t, a.text)
                    /\ sub' = [sub EXCEPT ![t] =
                          IF ExpectedNonce(a.text) = None
                          THEN [s EXCEPT !.pc = "blocked"]
                          ELSE Returned(Finish(s.op, NoHash,
                                   [ErrorResultWith("nonce_too_low", NoHash,
                                            a.text) EXCEPT !.quoted = a.hash]))]
               ELSE /\ UNCHANGED nonce_vars
                    /\ sub' = [sub EXCEPT ![t].pc = "blocked"]
       ELSE /\ UNCHANGED <<ledger_vars, nonce_vars>>
            /\ sub' = [sub EXCEPT ![t] =
                  Returned(Finish(s.op, NoHash,
                               [ErrorResultWith("unexpected_error", NoHash, a.text)
                                   EXCEPT !.quoted = a.hash]))]

\* The error category of lines 478-500.
Categorize(text) ==
    IF Contains(text, "nonce too low") THEN "nonce_too_low"
    ELSE IF Contains(text, "insufficient funds") THEN "insufficient_funds"
    ELSE IF Contains(text, "gas required exceeds allowance") THEN "gas_limit_exceeded"
    ELSE IF Contains(text, "already known") THEN "already_known"
    ELSE IF Contains(text, "timeout") THEN "timeout"
    ELSE IF Contains(text, "rate limit") THEN "rate_limited"
    ELSE "unknown"

\* Lines 295-452: the receipt r of transaction h has arrived.
AfterReceipt(t, r) ==
    LET s == sub[t]
        h == s.hash
        status == IF r.status = 1 THEN "confirmed" ELSE "failed"
        error_message ==
            IF status = "confirmed" THEN <<>>
            ELSE IF r.gasUsed * 100 >= s.tx.gas * 95
            THEN <<"Transaction failed - likely out of gas or execution error">>
            ELSE <<"Transaction execution failed on blockchain">>
        updated ==
            IF h \in DOMAIN transaction_details
            THEN [transaction_details EXCEPT ![h] =
                     [@ EXCEPT !.status = status, !.block_number = r.blockNumber,
                               !.gas_used = r.gasUsed, !.transaction_found = TRUE,
                               !.error = error_message]]
            ELSE transaction_details
        evict == /\ s.addr \in DOMAIN pending_transactions
                 /\ Len(pending_transactions[s.addr]) > max_tracked
        old_tx == Head(pending_transactions[s.addr])
    IN /\ pending_transactions' =
             IF evict THEN [pending_transactions EXCEPT ![s.addr] = Tail(@)]
             ELSE pending_transactions
       /\ transaction_details' =
             IF evict
             THEN [g \in DOMAIN updated \ {old_tx} |-> updated[g]]
             ELSE updated
       /\ sub' = [sub EXCEPT ![t] = Returned(Finish(s.op, h,
                     [status |-> IF status = "confirmed" THEN "success" ELSE "failed",
                      error_category |-> "none", tx_hash |-> h,
                      error |-> IF status = "confirmed" THEN <<>>
                                ELSE <<"Transaction execution failed on blockchain">>,
                      quoted |-> NoHash, token_id |-> None]))]

\* Lines 453-509: waiting for the receipt of h raised the error `text`.
AfterReceiptError(t, text) ==
    LET s == sub[t]
        h == s.hash
    IN /\ IF h \notin DOMAIN transaction_details
          THEN /\ pending_transactions' =
                     IF s.addr \in DOMAIN pending_transactions
                     THEN [pending_transactions EXCEPT ![s.addr] = Append(@, h)]
                     ELSE pending_transactions @@ (s.addr :> <<h>>)
               /\ transaction_details' = transaction_details @@
                     (h :> [address |-> s.addr, status |-> "failed",
                            transaction_found |-> FALSE, gas_limit |-> None,
                            nonce |-> None, error |-> text,
                            block_number |-> None, gas_used |-> None])
          ELSE /\ pending_transactions' = pending_transactions
               /\ transaction_details' =
                     [transaction_details EXCEPT ![h] =
                         [@ EXCEPT !.status = "failed", !.error = text]]
       /\ sub' = [sub EXCEPT ![t] =
               Returned(Finish(s.op, h, ErrorResultWith(Categorize(text), h, text)))]

\* execute_with_rate_limit: the acquire before a call of fn, up to its return
\* or its sleep.  A False from acquire raises RateLimitExceeded.
AfterAcquire(t) ==
    IF acq'[t].pc = "sleeping"
    THEN /\ sub' = [sub EXCEPT ![t].pc =
                       IF sub[t].pc \in {"send_acquire", "send_sleep"}
                       THEN "send_sleep" ELSE "receipt_sleep"]
         /\ UNCHANGED <<ledger_vars, nonce_vars>>
    ELSE IF acq'[t].ret
    THEN /\ sub' = [sub EXCEPT ![t].pc =
                       IF sub[t].pc \in {"send_acquire", "send_sleep"}
                       THEN "send_call" ELSE "receipt_call"]
         /\ UNCHANGED <<ledger_vars, nonce_vars>>
    ELSE IF sub[t].pc \in {"send_acquire", "send_sleep"}
    THEN AfterSend(t, Failure(RateLimitExceeded, NoHash))
    ELSE AfterReceiptError(t, RateLimitExceeded) /\ UNCHANGED nonce_vars

exec_acquire(t) ==
    /\ sub[t].pc \in {"send_acquire", "receipt_acquire"}
    /\ now >= sub[t].wake
    /\ acquire_enter(t, 1, TRUE, default_max_wait)
    /\ AfterAcquire(t)

exec_wake(t) ==
    /\ sub[t].pc \in {"send_sleep", "receipt_sleep"}
    /\ acquire_wake(t)
    /\ AfterAcquire(t)

\* execute_with_rate_limit after fn raised `text`: a 429 is retried after
\* backoff_factor ** attempt seconds as long as attempt < retry_count.
\* A retry loop that never gives up on a 429.
Retries_unbounded(t, text) ==
    Contains(text, "429") \/ Contains(text, "Too Many Requests")

Retries(t, text) ==
    /\ Contains(text, "429") \/ Contains(text, "Too Many Requests")
    /\ sub[t].attempt < retry_count
Retry(t, text) ==
    sub' = [sub EXCEPT ![t].pc = IF sub[t].pc = "send_call"
                                 THEN "send_acquire" ELSE "receipt_acquire",
                       ![t].attempt = @ + 1, ![t].raised = text,
                       ![t].wake = now + Seconds(Pow(backoff_factor, sub[t].attempt))]

\* send_tx(): w3.eth.send_raw_transaction answers `a`.
send_call(t, a) ==
    /\ sub[t].pc = "send_call"
    /\ mempool' = IF a.ok THEN mempool \cup {a.hash} ELSE mempool
    /\ IF ~a.ok /\ Retries(t, a.text)
       THEN Retry(t, a.text) /\ UNCHANGED <<ledger_vars, nonce_vars>>
       ELSE AfterSend(t, a)

\* get_receipt(): w3.eth.wait_for_transaction_receipt answers `a`.
receipt_call(t, a) ==
    /\ sub[t].pc = "receipt_call"
    /\ IF a.ok THEN AfterReceipt(t, receipts[a.hash])
       ELSE IF Retries(t, a.text)
       THEN Retry(t, a.text) /\ UNCHANGED ledger_vars
       ELSE AfterReceiptError(t, a.text)

\* ------------------------------------------------- reading the ledger
UnknownHash == <<None, "none", None, None, None>>

\* What the node may answer to get_transaction(h) and, for a mined
\* transaction, to get_transaction_receipt(h).  A transaction the node does
\* not have raises TransactionNotFound or comes back empty.
LookupAnswers(h) ==
    IF h \in DOMAIN receipts
    THEN {[tx |-> "mined", receipt |-> r, text |-> <<>>] : r \in {"found", "none"}}
    ELSE IF h \in mempool
    THEN {[tx |-> "pending", receipt |-> "none", text |-> <<>>]}
    ELSE {[tx |-> "none", receipt |-> "none", text |-> <<>>],
          [tx |-> "raises", receipt |-> "none", text |-> <<"Transaction not found">>]}
LookupFailures(h) ==
    {[tx |-> "raises", receipt |-> "none", text |-> TooManyRequests]}
    \cup (IF h \in DOMAIN receipts
          THEN {[tx |-> "mined", receipt |-> "raises", text |-> TooManyRequests]}
          ELSE {})

StatusResult(h, path, status, found, block_number, gas_used, error) ==
    [op |-> "status", hash |-> h, address |-> "none", path |-> path,
     status |-> status, transaction_found |-> found,
     block_number |-> block_number, gas_used |-> gas_used, error |-> error,
     list |-> <<>>]

\* get_transaction_status(tx_hash) with the node answering `a`.
get_transaction_status(h, a) ==
    IF h = NoHash
    THEN StatusResult(h, "none", "error", FALSE, None, None,
                      <<"No transaction hash provided">>)
    ELSE IF h \in DOMAIN transaction_details
    THEN LET rec == transaction_details[h]
         IN StatusResult(h, "memory", rec.status, rec.transaction_found,
                         rec.block_number, rec.gas_used, rec.error)
    ELSE IF a.tx = "raises" \/ a.receipt = "raises"
    THEN StatusResult(h, "chain", "error", FALSE, None, None, a.text)
    ELSE IF a.tx = "none"
    THEN StatusResult(h, "chain", "error", FALSE, None, None,
                      <<"Transaction not found">>)
    ELSE IF a.tx = "pending"
    THEN StatusResult(h, "chain", "pending", TRUE, None, None, <<>>)
    ELSE IF a.receipt = "none"
    THEN StatusResult(h, "chain", "pending", TRUE, receipts[h].blockNumber,
                      None, <<>>)
    ELSE StatusResult(h, "chain",
                      IF receipts[h].status = 1 THEN "success" ELSE "failed",
                      TRUE, receipts[h].blockNumber, receipts[h].gasUsed, <<>>)

\* get_transactions(address): the records of the address's hashes, in the
\* order of the list.
Listed(hashes) ==
    LET kept == SelectSeq(hashes, LAMBDA h : h \in DOMAIN transaction_details)
    IN [i \in 1..Len(kept) |->
           [tx_hash |-> kept[i], status |-> transaction_details[kept[i]].status,
            nonce |-> transaction_details[kept[i]].nonce]]
get_transactions(address) ==
    [op |-> "list", hash |-> NoHash, address |-> address, path |-> "memory",
     status |-> "none", transaction_found |-> FALSE, block_number |-> None,
     gas_used |-> None, error |-> <<>>,
     list |-> IF address # "" /\ address \in DOMAIN pending_transactions
              THEN Listed(pending_transactions[address]) ELSE <<>>]

\* A read is logged with what the node was asked to answer and what the
\* method returned.
NotAsked == [tx |-> "none", receipt |-> "none", text |-> <<>>]
Queried(a, r) ==
    LET q == [asked |-> a, ret |-> r]
    IN IF Len(qlog) < 2 THEN Append(qlog, q) ELSE <<qlog[2], q>>

\* BaseContractService(...) is constructed again, as the dependency provider
\* does: a new ledger, nonce manager and rate limiter over the same chain.
new_service ==
    /\ \A t \in Threads : sub[t].pc \in {"idle", "returned"}
    /\ current_nonce' = None
    /\ last_update_time' = 0
    /\ nm_lock' = NoThread
    /\ nm_log' = <<>>
    /\ nm_handed' = {}
    /\ nm_reused' = FALSE
    /\ tokens' = max_tokens
    /\ last_refill_time' = now
    /\ acq' = [t \in Threads |-> IdleAcquire]
    /\ granted' = [count |-> 0, since |-> now]
    /\ sub' = [t \in Threads |-> IdleSub]
    /\ pending_transactions' = <<>>
    /\ transaction_details' = <<>>

\* ------------------------------------------------------- the HTTP route
max_retries == 3

\* The retry loop of the award route for one request: the address asked for,
\* retry_count, and the sleep before the next attempt.
\* max_retries is a parameter of the route function (a query parameter of the
\* request) whose default is 3.
IdleRoute ==
    [addr |-> "none", retries |-> 0, wake |-> 0, retrying |-> FALSE,
     max_retries |-> max_retries]

\* The result makes the loop go round again (lines 43-62).
NonceKind(result) ==
    result.status = "error" /\ result.error_category \in {"nonce_too_low", "nonce_error"}
RateKind(result) ==
    result.status = "error" /\ result.error_category = "rate_limited"
Retryable(t) ==
    /\ sub[t].pc = "returned"
    /\ route[t].addr # "none"
    /\ NonceKind(sub[t].result) \/ RateKind(sub[t].result)
    /\ route[t].retries < route[t].max_retries

\* A request arrives: the loop starts with retry_count = 0.
route_request(t, address) ==
    /\ ~route[t].retrying /\ ~Retryable(t)
    /\ route' = [route EXCEPT ![t] = [IdleRoute EXCEPT !.addr = address]]

\* A request that sets max_retries itself.
route_request_with(t, address, n) ==
    /\ ~route[t].retrying /\ ~Retryable(t)
    /\ route' = [route EXCEPT ![t] = [IdleRoute EXCEPT !.addr = address,
                                                       !.max_retries = n]]

\* The result asks for a retry: retry_count += 1 and asyncio.sleep of
\* 0.5 * 2 ** retry_count (nonce) or 2 * 2 ** retry_count (rate limit) seconds.
route_backoff(t) ==
    /\ ~route[t].retrying /\ Retryable(t)
    /\ LET n == route[t].retries + 1
           delay == IF NonceKind(sub[t].result)
                    THEN Seconds(Pow(2, n)) \div 2
                    ELSE Seconds(2 * Pow(2, n))
       IN route' = [route EXCEPT ![t].retries = n, ![t].wake = now + delay,
                                 ![t].retrying = TRUE]

\* The sleep is over: the loop calls award_xp again.
route_retry(t) ==
    /\ route[t].retrying
    /\ now >= route[t].wake
    /\ route' = [route EXCEPT ![t].retrying = FALSE]

\* Lines 76-92: the response the route makes of the last result, after
\* retry_count retries; check_status_at is the link's hash, NoHash for none.
route_response(result, retries) ==
    [status |-> IF result.status = "success" THEN "processing" ELSE result.status,
     transaction_status |-> IF result.status = "success" THEN "pending" ELSE "failed",
     retries |-> retries,
     result |-> result,
     tx_hash |-> result.tx_hash,
     check_status_at |-> result.tx_hash]

\* The loop has ended with a result: the route responds.
Responds(t) ==
    /\ sub[t].pc = "returned"
    /\ route[t].addr # "none"
    /\ ~route[t].retrying /\ ~Retryable(t)

\* ------------------------------------------------------------------- specs
Init ==
    /\ now = StartTime
    /\ chain_count = 0
    /\ current_nonce = None
    /\ last_update_time = 0
    /\ nm_lock = NoThread
    /\ nm_log = <<>>
    /\ nm_handed = {}
    /\ nm_reused = FALSE
    /\ tokens = max_tokens
    /\ last_refill_time = StartTime
    /\ granted = [count |-> 0, since |-> StartTime]
    /\ acq = [t \in Threads |-> IdleAcquire]
    /\ sub = [t \in Threads |-> IdleSub]
    /\ mempool = {}
    /\ receipts = <<>>
    /\ pending_transactions = <<>>
    /\ transaction_details = <<>>
    /\ submitted = 0
    /\ faults = 0
    /\ route = [t \in Threads |-> IdleRoute]
    /\ qlog = <<>>
    /\ roles = [admin |-> TRUE, minter |-> TRUE, holders |-> {}]

NonceTick == Tick /\ UNCHANGED <<nonce_vars, rate_vars, tx_vars>>
NonceChainMine == ChainMine /\ UNCHANGED <<now, current_nonce, last_update_time, nm_lock, nm_log, nm_handed, nm_reused, rate_vars, tx_vars>>
NonceGet == \E t \in Threads, rpc_ok \in BOOLEAN : get_next_nonce(t, rpc_ok) /\ UNCHANGED <<now, rate_vars, tx_vars>>
NonceReset == \E t \in Threads : reset_nonce(t) /\ UNCHANGED <<now, rate_vars, tx_vars>>
NonceHandle == \E t \in Threads, msg \in NonceErrorTexts : handle_nonce_error(t, msg) /\ UNCHANGED <<now, rate_vars, tx_vars>>

NextNonce == NonceTick \/ NonceChainMine \/ NonceGet \/ NonceReset \/ NonceHandle

SpecNonce == Init /\ [][NextNonce]_vars

\* The arguments tried: one token (every caller in the code) and more
\* than the bucket holds; a short max_wait and the default one.
TokensAsked == {1, max_requests + 1}
MaxWaits == {1, default_max_wait}

\* C1: every call of get_next_nonce() returns a nonce that no other call on
\* that manager has returned, also across a TTL expiry or a reset_nonce().
C1_NoncesUnique == ~nm_reused

\* "msg reports: minimum expected nonce is K".
Reports(msg, k) ==
    \E i \in 1..(Len(msg) - 1) :
        /\ msg[i] = MinNoncePhrase /\ msg[i + 1] \in DigitWords
        /\ IntOf(msg[i + 1]) = k
        /\ \A j \in 1..(i - 1) :
              ~(msg[j] = MinNoncePhrase /\ msg[j + 1] \in DigitWords)

\* C10: handle_nonce_error(msg) with "minimum expected nonce is K" in msg sets
\* current_nonce to K and returns K, and a get_next_nonce() that follows it
\* inside the TTL window of the last refresh returns K.
C10_HandleSetsExpected ==
    \A k \in 0..MaxNonce :
        /\ (/\ Len(nm_log) >= 1
            /\ nm_log[Len(nm_log)].op = "handle"
            /\ Reports(nm_log[Len(nm_log)].arg, k))
           => (current_nonce = k /\ nm_log[Len(nm_log)].ret = k)
        /\ (/\ Len(nm_log) = 2
            /\ nm_log[1].op = "handle" /\ Reports(nm_log[1].arg, k)
            /\ nm_log[2].op = "get" /\ nm_log[2].in_ttl)
           => (nm_log[2].ret = k /\ ~nm_log[2].fetched)

\* handle_nonce_error took 3 from the text while the chain counts fewer
\* transactions, and the get_next_nonce() after it returned 3.
C10_Witness ==
    /\ Len(nm_log) = 2
    /\ nm_log[1].op = "handle" /\ Reports(nm_log[1].arg, 3)
    /\ nm_log[2].op = "get" /\ nm_log[2].in_ttl /\ nm_log[2].ret = 3
    /\ chain_count < 3

\* C11: handle_nonce_error(msg) with no expected nonce in msg returns (with
\* the chain's transaction count) and leaves the manager usable: no call is
\* left holding the lock.
C11_HandleLeavesManagerUsable == nm_lock = NoThread

\* C29, as stated: of two consecutive handouts with the second inside the
\* TTL window the second is the first plus one, without a call to the
\* chain; a handout right after reset_nonce() or more than 5 s after the
\* last refresh is the count fetched from the chain.
Handout(e) == e.op = "get" /\ e.ret # None
ConsecutiveInTtl ==
    (Len(nm_log) = 2 /\ Handout(nm_log[1]) /\ Handout(nm_log[2]) /\ nm_log[2].in_ttl)
    => /\ nm_log[2].ret = nm_log[1].ret + 1
       /\ ~nm_log[2].asked /\ ~nm_log[2].fetched
AfterReset ==
    (Len(nm_log) = 2 /\ nm_log[1].op = "reset" /\ nm_log[2].op = "get")
    => /\ nm_log[2].asked
       /\ nm_log[2].ret # None => nm_log[2].fetched
C29_RefetchOnExpiryOrReset ==
    /\ ConsecutiveInTtl
    /\ AfterReset
    /\ (Len(nm_log) >= 1 /\ Handout(nm_log[Len(nm_log)]) /\ ~nm_log[Len(nm_log)].in_ttl)
       => nm_log[Len(nm_log)].fetched

\* C29, amended: more than 5 s after the last refresh get_next_nonce() asks
\* the chain, and hands out the count it fetched or, the call having failed,
\* the cached nonce: the one after the handout before it.
C29_AsksOnExpiryOrReset ==
    /\ ConsecutiveInTtl
    /\ AfterReset
    /\ (Len(nm_log) >= 1 /\ nm_log[Len(nm_log)].op = "get" /\ ~nm_log[Len(nm_log)].in_ttl)
       => /\ nm_log[Len(nm_log)].asked
          /\ (Len(nm_log) = 2 /\ Handout(nm_log[1]) /\ Handout(nm_log[2])
                 /\ ~nm_log[2].fetched)
             => nm_log[2].ret = nm_log[1].ret + 1

\* Two handouts, the second after the TTL has run out and with the chain
\* not answering: the cached nonce is handed out.
C29_Witness ==
    /\ Len(nm_log) = 2 /\ Handout(nm_log[1]) /\ Handout(nm_log[2])
    /\ ~nm_log[2].in_ttl /\ nm_log[2].asked /\ ~nm_log[2].fetched
    /\ nm_log[2].ret = nm_log[1].ret + 1

\* ---------------------------------------------------------- SpecRate
RateTick == Tick /\ UNCHANGED <<nonce_vars, rate_vars, tx_vars>>
RateAcquire == \E t \in Threads, n \in TokensAsked, wait \in BOOLEAN, mw \in MaxWaits : acquire_enter(t, n, wait, mw) /\ UNCHANGED <<now, nonce_vars, tx_vars>>
RateWake == \E t \in Threads : acquire_wake(t) /\ UNCHANGED <<now, nonce_vars, tx_vars>>

NextRate == RateTick \/ RateAcquire \/ RateWake

SpecRate == Init /\ [][NextRate]_vars

\* C5: 0 <= tokens <= max_tokens in every reachable state of the bucket.
C5_TokensInRange == 0 <= tokens /\ tokens <= max_tokens

\* Tokens were taken, and a later refill has filled the bucket again.
C5_Witness ==
    /\ tokens = max_tokens
    /\ last_refill_time > StartTime
    /\ \E t \in Threads : acq[t].pc = "returned" /\ acq[t].ret

\* C6: acquire(n, maxWait) returns false only when the wait needed for the n
\* tokens exceeds maxWait, for every caller, also with concurrent callers
\* (stated for the calls that ask for no more than the bucket can hold).
C6_FalseOnlyWhenWaitExceeds ==
    \A t \in Threads :
        (/\ acq[t].pc = "returned" /\ acq[t].wait /\ ~acq[t].ret
         /\ acq[t].n <= max_requests)
        => acq[t].wait_time > Seconds(acq[t].max_wait)


\* --------------------------------------------------------- SpecBuild
\* The build stage alone, over many gas estimates, gas prices and blocks.
Estimates == {21001, 50000, 100000, 100003}
GasPrices == {one_gwei, 3}
Blocks ==
    {[ok |-> TRUE, has_base |-> TRUE, base |-> b] : b \in {0, 7, 500000000}}
    \cup {[ok |-> TRUE, has_base |-> FALSE, base |-> 0], NoBlock}

BuildAward ==
    /\ \E t \in Threads, a \in Addresses \cup {BadAddress}, has_role \in BOOLEAN,
          est \in Estimates \cup {None}, gp \in GasPrices, blk \in Blocks,
          sim_ok \in BOOLEAN :
            award_xp(t, a, has_role, est, gp, blk, sim_ok, MaxBuilds)
    /\ UNCHANGED <<now, route, qlog, roles, nonce_vars, rate_vars, chain_vars, ledger_vars, faults>>

BuildChainMine ==
    /\ ChainMine
    /\ UNCHANGED <<now, route, qlog, roles, current_nonce, last_update_time, nm_lock, nm_log,
                   nm_handed, nm_reused, rate_vars, tx_vars>>

NextBuild == BuildAward \/ BuildChainMine

SpecBuild == Init /\ [][NextBuild]_vars

\* C7: with baseFeePerGas = b in the latest block the transaction is built
\* with maxPriorityFeePerGas = 1 gwei and maxFeePerGas = 2 b + that; without
\* it the transaction is legacy with gasPrice = the RPC's gas price; no built
\* transaction carries both gasPrice and maxFeePerGas.
C7_FeeProfile ==
    \A t \in Threads :
        sub[t].pc = "built" =>
            /\ (sub[t].block.ok /\ sub[t].block.has_base) =>
                  /\ sub[t].tx.maxPriorityFeePerGas = 1000000000
                  /\ sub[t].tx.maxFeePerGas
                        = 2 * sub[t].block.base + sub[t].tx.maxPriorityFeePerGas
            /\ (sub[t].block.ok /\ ~sub[t].block.has_base) =>
                  /\ sub[t].tx.gasPrice = sub[t].gas_price
                  /\ sub[t].tx.maxPriorityFeePerGas = None
            /\ (sub[t].tx.gasPrice = None) # (sub[t].tx.maxFeePerGas = None)

\* One thread has built an EIP-1559 transaction on a positive base fee and
\* the other a legacy one.
C7_Witness ==
    \E t, u \in Threads :
        /\ sub[t].pc = "built" /\ sub[t].block.has_base /\ sub[t].block.base = 7
        /\ sub[t].tx.maxFeePerGas = 1000000014
        /\ sub[u].pc = "built" /\ sub[u].block.ok /\ ~sub[u].block.has_base
        /\ sub[u].tx.gasPrice = sub[u].gas_price

TxAddresses == {"a1"}
TxEstimates == {50000}
TxBlocks == {[ok |-> TRUE, has_base |-> TRUE, base |-> 7]}
GasUsedOf(gas) == {gas, gas \div 2}

TxTick ==
    /\ now < StartTime + Seconds(TxSeconds)
    /\ now' = now + 1
    /\ UNCHANGED <<nonce_vars, rate_vars, tx_vars>>

TxAward ==
    /\ \E t \in Threads, a \in TxAddresses, est \in TxEstimates, blk \in TxBlocks :
            /\ route_request(t, a)
            /\ award_xp(t, a, TRUE, est, one_gwei, blk, TRUE, MaxSubmits)
    /\ UNCHANGED <<now, qlog, roles, nonce_vars, rate_vars, chain_vars, ledger_vars, faults>>

TxRouteBackoff ==
    /\ \E t \in Threads : route_backoff(t)
    /\ UNCHANGED <<now, qlog, roles, nonce_vars, rate_vars, sub, chain_vars, ledger_vars,
                   submitted, faults>>

TxRouteRetry ==
    /\ \E t \in Threads, est \in TxEstimates, blk \in TxBlocks :
            /\ route_retry(t)
            /\ award_xp(t, route[t].addr, TRUE, est, one_gwei, blk, TRUE,
                        submitted + 1)
    /\ UNCHANGED <<now, qlog, roles, nonce_vars, rate_vars, chain_vars, ledger_vars, faults>>

TxSign ==
    /\ \E t \in Threads : send_transaction(t)
    /\ UNCHANGED <<now, route, qlog, roles, nonce_vars, rate_vars, chain_vars, ledger_vars,
                   submitted, faults>>

TxAcquire ==
    /\ \E t \in Threads : exec_acquire(t)
    /\ UNCHANGED <<now, route, qlog, roles, chain_count, chain_vars, submitted, faults>>

TxWake ==
    /\ \E t \in Threads : exec_wake(t)
    /\ UNCHANGED <<now, route, qlog, roles, chain_count, chain_vars, submitted, faults>>

TxSend ==
    /\ \E t \in Threads :
          \E a \in SendAnswers(TxHash(sub[t].tx, sub[t].addr)) : send_call(t, a)
    /\ UNCHANGED <<now, route, qlog, roles, chain_count, receipts, rate_vars, submitted, faults>>

TxSendFault ==
    /\ faults < MaxFaults
    /\ faults' = faults + 1
    /\ \E t \in Threads : \E a \in TransportFailures : send_call(t, a)
    /\ UNCHANGED <<now, route, qlog, roles, chain_count, receipts, rate_vars, submitted>>

TxReceipt ==
    /\ \E t \in Threads : \E a \in ReceiptAnswers(sub[t].hash) : receipt_call(t, a)
    /\ UNCHANGED <<now, route, qlog, roles, nonce_vars, chain_vars, rate_vars, submitted, faults>>

TxReceiptFault ==
    /\ faults < MaxFaults
    /\ faults' = faults + 1
    /\ \E t \in Threads : \E a \in TransportFailures : receipt_call(t, a)
    /\ UNCHANGED <<now, route, qlog, roles, nonce_vars, chain_vars, rate_vars, submitted>>

TxMine ==
    /\ \E h \in mempool, status \in {0, 1} : \E g \in GasUsedOf(h[3]) :
          Mine(h, status, g)
    /\ UNCHANGED <<now, route, qlog, roles, current_nonce, last_update_time, nm_lock, nm_log,
                   nm_handed, nm_reused, rate_vars, sub, ledger_vars,
                   submitted, faults>>

NextTx ==
    \/ TxTick \/ TxAward \/ TxRouteBackoff \/ TxRouteRetry \/ TxSign \/ TxAcquire \/ TxWake \/ TxSend
    \/ TxSendFault \/ TxReceipt \/ TxReceiptFault \/ TxMine

SpecTx == Init /\ [][NextTx]_vars

\* C2: two award_xp calls in flight at the same time carry distinct nonces.
InFlight(t) ==
    sub[t].pc \in {"built", "send_acquire", "send_sleep", "send_call",
                   "receipt_acquire", "receipt_sleep", "receipt_call"}
C2_ConcurrentNoncesDistinct ==
    \A t1 \in Threads, t2 \in Threads :
        (t1 # t2 /\ InFlight(t1) /\ InFlight(t2))
            => sub[t1].tx.nonce # sub[t2].tx.nonce

\* C4: a record whose status is confirmed or failed keeps its status and
\* every recorded field for as long as it is in the ledger.
Terminal(rec) == rec.status \in {"confirmed", "failed"}
C4_TerminalRecordsFrozen ==
    [][\A h \in DOMAIN transaction_details :
          (Terminal(transaction_details[h]) /\ h \in DOMAIN transaction_details')
              => transaction_details'[h] = transaction_details[h]]_vars

\* C9: a confirmed or failed record has its block number and gas used set,
\* and the gas used does not exceed its gas limit.
C9_TerminalRecordsComplete ==
    \A h \in DOMAIN transaction_details :
        Terminal(transaction_details[h])
            => /\ transaction_details[h].block_number # None
               /\ transaction_details[h].gas_used # None
               /\ transaction_details[h].gas_used <= transaction_details[h].gas_limit

\* C12: when a send fails with "nonce too low, minimum expected nonce is K",
\* the manager's current_nonce becomes K, the route's retry of that
\* submission is built with nonce K, and a confirmed record keeps its status
\* and nonce through both steps.
FailedWithExpected(s) ==
    /\ s.pc = "returned"
    /\ s.result.error_category = "nonce_too_low"
    /\ ExpectedNonce(s.result.error) # None
C12_RetryUsesExpectedNonce ==
    [][\A t \in Threads :
          /\ (sub[t].pc = "send_call" /\ FailedWithExpected(sub'[t]))
                => current_nonce' = ExpectedNonce(sub'[t].result.error)
          /\ (FailedWithExpected(sub[t]) /\ sub'[t].pc = "built")
                => sub'[t].tx.nonce = ExpectedNonce(sub[t].result.error)
          /\ ((sub[t].pc = "send_call" /\ FailedWithExpected(sub'[t]))
                 \/ (FailedWithExpected(sub[t]) /\ sub'[t].pc = "built"))
                => \A h \in DOMAIN transaction_details :
                      transaction_details[h].status = "confirmed"
                          => /\ h \in DOMAIN transaction_details'
                             /\ transaction_details'[h] = transaction_details[h]]_vars

\* C16: when the wait for a receipt ends with TimeExhausted, the record of
\* that hash is pending, not failed.
C16_TimeoutLeavesPending ==
    \A h \in DOMAIN transaction_details :
        transaction_details[h].error = NotInChain
            => transaction_details[h].status = "pending"

\* C26: the route reports a submission that produced a transaction hash as
\* "processing" with a status link for that hash, whatever became of the
\* transaction; one that produced no hash as an error with its category.
C26_HashMeansProcessing ==
    \A t \in Threads :
        Responds(t) =>
            LET response == route_response(sub[t].result, route[t].retries)
            IN IF sub[t].result.tx_hash # NoHash
               THEN /\ response.status = "processing"
                    /\ response.check_status_at = sub[t].result.tx_hash
               ELSE /\ response.status = "error"
                    /\ response.result.error_category # "none"

\* C20: a send refused as "already known" or "already exists" goes on with
\* the hash the error quotes: the hash is taken and recorded, its receipt is
\* awaited and the outcome is written under it.  Refused so without a quoted
\* hash, the call returns unexpected_error with no transaction hash.
Duplicate(text) == Contains(text, "already known") \/ Contains(text, "already exists")
ReceiptStage(s) == s.pc \in {"receipt_acquire", "receipt_sleep", "receipt_call"}
C20_DuplicateContinuesWithQuotedHash ==
    [][\A t \in Threads :
         /\ (sub[t].pc = "send_call" /\ ReceiptStage(sub'[t]) /\ ~sub'[t].sent.ok)
              => /\ Duplicate(sub'[t].sent.text)
                 /\ sub'[t].sent.hash # NoHash
                 /\ sub'[t].hash = sub'[t].sent.hash
                 /\ sub'[t].hash \in DOMAIN transaction_details'
         /\ (sub[t].pc = "send_call" /\ sub'[t].pc = "returned"
                /\ Duplicate(sub'[t].result.error))
              => /\ sub'[t].result.quoted = NoHash
                 /\ sub'[t].result.error_category = "unexpected_error"
                 /\ sub'[t].result.tx_hash = NoHash
         /\ (sub[t].pc = "receipt_call" /\ ~sub[t].sent.ok /\ sub'[t].pc = "returned")
              => /\ sub'[t].result.tx_hash = sub[t].sent.hash
                 /\ sub[t].sent.hash \in DOMAIN transaction_details'
                 /\ transaction_details'[sub[t].sent.hash].status
                        \in {"confirmed", "failed"}
                 /\ (sub'[t].result.status = "success")
                        = (transaction_details'[sub[t].sent.hash].status = "confirmed")]_vars
C20_Witness ==
    \E t, u \in Threads :
        /\ sub[t].pc = "receipt_call" /\ ~sub[t].sent.ok
        /\ sub[t].hash = sub[t].sent.hash
        /\ sub[t].hash \in DOMAIN receipts
        /\ sub[u].pc = "returned" /\ Duplicate(sub[u].result.error)
        /\ sub[u].result.error_category = "unexpected_error"

\* ---------------------------------------------------------- SpecIndex
\* One caller awarding XP to one address again and again, each transaction
\* mined with success when it is mined.
IndexThread == 1
IndexAddress == "a1"
IndexEstimate == 50000
IndexBlock == [ok |-> TRUE, has_base |-> TRUE, base |-> 7]

\* The clock is read only by acquire and by the sleeps, so time passes while
\* the caller is at one of them.
IndexTick ==
    /\ sub[IndexThread].pc \in {"send_acquire", "send_sleep",
                                "receipt_acquire", "receipt_sleep"}
    /\ now < StartTime + Seconds(IndexSeconds)
    /\ now' = now + 1
    /\ UNCHANGED <<nonce_vars, rate_vars, tx_vars>>

IndexAward ==
    /\ award_xp(IndexThread, IndexAddress, TRUE, IndexEstimate, one_gwei,
                IndexBlock, TRUE, IndexSubmits)
    /\ UNCHANGED <<now, route, qlog, roles, nonce_vars, rate_vars, chain_vars, ledger_vars, faults>>

IndexSign ==
    /\ send_transaction(IndexThread)
    /\ UNCHANGED <<now, route, qlog, roles, nonce_vars, rate_vars, chain_vars, ledger_vars,
                   submitted, faults>>

IndexAcquire ==
    /\ exec_acquire(IndexThread)
    /\ UNCHANGED <<now, route, qlog, roles, chain_count, chain_vars, submitted, faults>>

IndexWake ==
    /\ exec_wake(IndexThread)
    /\ UNCHANGED <<now, route, qlog, roles, chain_count, chain_vars, submitted, faults>>

IndexSend ==
    /\ \E a \in SendAnswers(TxHash(sub[IndexThread].tx, sub[IndexThread].addr)) :
          send_call(IndexThread, a)
    /\ UNCHANGED <<now, route, qlog, roles, chain_count, receipts, rate_vars, submitted, faults>>

IndexReceipt ==
    /\ \E a \in ReceiptAnswers(sub[IndexThread].hash) :
          a.ok /\ receipt_call(IndexThread, a)
    /\ UNCHANGED <<now, route, qlog, roles, nonce_vars, chain_vars, rate_vars, submitted, faults>>

\* The wait for the receipt runs out of time, at most MaxFaults times.
IndexReceiptTimeout ==
    /\ faults < MaxFaults
    /\ faults' = faults + 1
    /\ \E a \in ReceiptAnswers(sub[IndexThread].hash) :
          ~a.ok /\ receipt_call(IndexThread, a)
    /\ UNCHANGED <<now, route, qlog, roles, nonce_vars, chain_vars, rate_vars, submitted>>

IndexMine ==
    /\ \E h \in mempool : Mine(h, 1, h[3] \div 2)
    /\ UNCHANGED <<now, route, qlog, roles, current_nonce, last_update_time, nm_lock, nm_log,
                   nm_handed, nm_reused, rate_vars, sub, ledger_vars,
                   submitted, faults>>

NextIndex ==
    \/ IndexTick \/ IndexAward \/ IndexSign \/ IndexAcquire \/ IndexWake
    \/ IndexSend \/ IndexReceipt \/ IndexReceiptTimeout \/ IndexMine

SpecIndex == Init /\ [][NextIndex]_vars

\* C3: the list of hashes kept for an address never has more than ten
\* entries.
C3_IndexAtMostTen ==
    \A a \in DOMAIN pending_transactions :
        Len(pending_transactions[a]) <= max_tracked

\* C30: the step that records a transaction for an address whose list is
\* full removes the list's oldest hash and that hash's record, and leaves
\* the lists and records of the other addresses as they are.
Recorded(h, a) ==
    /\ h \notin DOMAIN transaction_details
    /\ h \in DOMAIN transaction_details'
    /\ transaction_details'[h].address = a
C30_RecordingEvictsOldest ==
    [][\A a \in DOMAIN pending_transactions :
         \A h \in DOMAIN transaction_details' :
            (Recorded(h, a) /\ Len(pending_transactions[a]) >= max_tracked)
            => /\ pending_transactions'[a] = Append(Tail(pending_transactions[a]), h)
               /\ Head(pending_transactions[a]) \notin DOMAIN transaction_details'
               /\ \A b \in DOMAIN pending_transactions \ {a} :
                     pending_transactions'[b] = pending_transactions[b]]_vars

\* ------------------------------------------------------------ SpecExec
\* One award_xp call whose RPC calls are answered with errors again and
\* again.
ExecThread == 1

ExecTick ==
    /\ now < StartTime + Seconds(ExecSeconds)
    /\ now' = now + 1
    /\ UNCHANGED <<nonce_vars, rate_vars, tx_vars>>

ExecAward ==
    /\ award_xp(ExecThread, IndexAddress, TRUE, IndexEstimate, one_gwei,
                IndexBlock, TRUE, 1)
    /\ UNCHANGED <<now, route, qlog, roles, nonce_vars, rate_vars, chain_vars, ledger_vars, faults>>

ExecSign ==
    /\ send_transaction(ExecThread)
    /\ UNCHANGED <<now, route, qlog, roles, nonce_vars, rate_vars, chain_vars, ledger_vars,
                   submitted, faults>>

ExecAcquire ==
    /\ exec_acquire(ExecThread)
    /\ UNCHANGED <<now, route, qlog, roles, chain_count, chain_vars, submitted, faults>>

ExecSend ==
    /\ \E a \in SendAnswers(TxHash(sub[ExecThread].tx, sub[ExecThread].addr)) :
          send_call(ExecThread, a)
    /\ UNCHANGED <<now, route, qlog, roles, chain_count, receipts, rate_vars, submitted, faults>>

ExecSendFault ==
    /\ faults < ExecFaults
    /\ faults' = faults + 1
    /\ \E a \in TransportFailures : send_call(ExecThread, a)
    /\ UNCHANGED <<now, route, qlog, roles, chain_count, receipts, rate_vars, submitted>>

ExecReceipt ==
    /\ \E a \in ReceiptAnswers(sub[ExecThread].hash) : receipt_call(ExecThread, a)
    /\ UNCHANGED <<now, route, qlog, roles, nonce_vars, chain_vars, rate_vars, submitted, faults>>

ExecReceiptFault ==
    /\ faults < ExecFaults
    /\ faults' = faults + 1
    /\ \E a \in TransportFailures : receipt_call(ExecThread, a)
    /\ UNCHANGED <<now, route, qlog, roles, nonce_vars, chain_vars, rate_vars, submitted>>

ExecMine ==
    /\ \E h \in mempool, status \in {0, 1} : \E g \in GasUsedOf(h[3]) :
          Mine(h, status, g)
    /\ UNCHANGED <<now, route, qlog, roles, current_nonce, last_update_time, nm_lock, nm_log,
                   nm_handed, nm_reused, rate_vars, sub, ledger_vars,
                   submitted, faults>>

NextExec ==
    \/ ExecTick \/ ExecAward \/ ExecSign \/ ExecAcquire \/ ExecSend
    \/ ExecSendFault \/ ExecReceipt \/ ExecReceiptFault \/ ExecMine

SpecExec == Init /\ [][NextExec]_vars

\* C13: execute_with_rate_limit acquires one token before each invocation of
\* fn, invokes fn again only after an error whose text has "429" or "Too Many
\* Requests", invokes it at most retry_count + 1 times, and raises any other
\* error after the invocation in which it occurs.
Invoking(s) == s.pc \in {"send_call", "receipt_call"}
Acquiring(s) == s.pc \in {"send_acquire", "send_sleep", "receipt_acquire", "receipt_sleep"}
C13_ExecuteWithRateLimit ==
    [][\A t \in Threads :
          /\ (Invoking(sub'[t]) /\ sub'[t] # sub[t])
                => /\ Acquiring(sub[t])
                   /\ acq'[t].pc = "returned" /\ acq'[t].ret /\ acq'[t].n = 1
                   /\ tokens' = refill_tokens(tokens, last_refill_time, now).tokens - Seconds(1)
          /\ sub'[t].attempt <= retry_count
          /\ (sub'[t].attempt > 0 /\ Acquiring(sub'[t]))
                => (Contains(sub'[t].raised, "429")
                      \/ Contains(sub'[t].raised, "Too Many Requests"))
          /\ (Invoking(sub[t]) /\ Acquiring(sub'[t])
                 /\ sub'[t].pc \in {"send_acquire", "receipt_acquire"}
                 /\ sub[t].hash = sub'[t].hash)
                => (sub'[t].attempt = sub[t].attempt + 1
                      /\ (Contains(sub'[t].raised, "429")
                            \/ Contains(sub'[t].raised, "Too Many Requests")))]_vars

\* fn was invoked four times, each answered with a 429, and the fourth 429
\* was raised to _send_transaction.
C13_Witness ==
    /\ sub[ExecThread].pc = "returned"
    /\ sub[ExecThread].result.error = TooManyRequests
    /\ faults = retry_count + 1

\* ----------------------------------------------------------- SpecBurst
\* Submissions of two threads in quick succession, with no fault of the
\* transport: the bucket runs empty.
BurstTick ==
    /\ now < StartTime + Seconds(BurstSeconds)
    /\ now' = now + 1
    /\ UNCHANGED <<nonce_vars, rate_vars, tx_vars>>

BurstAward ==
    /\ \E t \in Threads :
          award_xp(t, IndexAddress, TRUE, IndexEstimate, one_gwei,
                   IndexBlock, TRUE, BurstSubmits)
    /\ UNCHANGED <<now, route, qlog, roles, nonce_vars, rate_vars, chain_vars, ledger_vars, faults>>

BurstSign ==
    /\ \E t \in Threads : send_transaction(t)
    /\ UNCHANGED <<now, route, qlog, roles, nonce_vars, rate_vars, chain_vars, ledger_vars,
                   submitted, faults>>

BurstAcquire ==
    /\ \E t \in Threads : exec_acquire(t)
    /\ UNCHANGED <<now, route, qlog, roles, chain_count, chain_vars, submitted, faults>>

BurstWake ==
    /\ \E t \in Threads : exec_wake(t)
    /\ UNCHANGED <<now, route, qlog, roles, chain_count, chain_vars, submitted, faults>>

BurstSend ==
    /\ \E t \in Threads :
          \E a \in SendAnswers(TxHash(sub[t].tx, sub[t].addr)) : send_call(t, a)
    /\ UNCHANGED <<now, route, qlog, roles, chain_count, receipts, rate_vars, submitted, faults>>

BurstReceipt ==
    /\ \E t \in Threads : \E a \in ReceiptAnswers(sub[t].hash) : receipt_call(t, a)
    /\ UNCHANGED <<now, route, qlog, roles, nonce_vars, chain_vars, rate_vars, submitted, faults>>

BurstMine ==
    /\ \E h \in mempool : Mine(h, 1, h[3] \div 2)
    /\ UNCHANGED <<now, route, qlog, roles, current_nonce, last_update_time, nm_lock, nm_log,
                   nm_handed, nm_reused, rate_vars, sub, ledger_vars,
                   submitted, faults>>

NextBurst ==
    \/ BurstTick \/ BurstAward \/ BurstSign \/ BurstAcquire \/ BurstWake
    \/ BurstSend \/ BurstReceipt \/ BurstMine

SpecBurst == Init /\ [][NextBurst]_vars

\* The submission is past sign_transaction (line 214) and is acquiring the
\* token for its first send.
SignedBeforeToken(s) ==
    s.pc \in {"send_acquire", "send_sleep"} /\ s.attempt = 0

\* C14: no transaction is signed for a submission whose acquire for the send
\* fails: a submission that has signed never ends on that failed acquire.
C14_NoSignatureWithoutToken ==
    [][\A t \in Threads :
          ~(SignedBeforeToken(sub[t]) /\ sub'[t].pc = "returned")]_vars

\* C15: a submission whose acquire for the send fails returns the category
\* rate_limited and no transaction hash.
C15_SendAcquireFailureIsRateLimited ==
    [][\A t \in Threads :
          (sub[t].pc \in {"send_acquire", "send_sleep"} /\ sub'[t].pc = "returned")
              => /\ sub'[t].result.error_category = "rate_limited"
                 /\ sub'[t].result.tx_hash = NoHash]_vars

\* ----------------------------------------------------------- SpecQuery
\* One caller submitting, the service being constructed anew, and reads of
\* the ledger in between.
QueryHashes ==
    DOMAIN transaction_details \cup mempool \cup DOMAIN receipts
        \cup {NoHash, UnknownHash}
QueryAddresses == {IndexAddress, "a2", ""}

QueryAward ==
    /\ award_xp(IndexThread, IndexAddress, TRUE, IndexEstimate, one_gwei,
                IndexBlock, TRUE, QuerySubmits)
    /\ UNCHANGED <<now, route, qlog, roles, nonce_vars, rate_vars, chain_vars, ledger_vars, faults>>

QuerySign ==
    /\ send_transaction(IndexThread)
    /\ UNCHANGED <<now, route, qlog, roles, nonce_vars, rate_vars, chain_vars, ledger_vars,
                   submitted, faults>>

QueryAcquire ==
    /\ exec_acquire(IndexThread)
    /\ UNCHANGED <<now, route, qlog, roles, chain_count, chain_vars, submitted, faults>>

QuerySend ==
    /\ \E a \in SendAnswers(TxHash(sub[IndexThread].tx, sub[IndexThread].addr)) :
          send_call(IndexThread, a)
    /\ UNCHANGED <<now, route, qlog, roles, chain_count, receipts, rate_vars, submitted, faults>>

QueryReceipt ==
    /\ \E a \in ReceiptAnswers(sub[IndexThread].hash) : receipt_call(IndexThread, a)
    /\ UNCHANGED <<now, route, qlog, roles, nonce_vars, chain_vars, rate_vars, submitted, faults>>

QueryMine ==
    /\ \E h \in mempool, status \in {0, 1} : Mine(h, status, h[3] \div 2)
    /\ UNCHANGED <<now, route, qlog, roles, current_nonce, last_update_time, nm_lock, nm_log,
                   nm_handed, nm_reused, rate_vars, sub, ledger_vars,
                   submitted, faults>>

QueryNewService ==
    /\ new_service
    /\ UNCHANGED <<now, route, qlog, roles, chain_count, chain_vars, submitted, faults>>

QueryStatus ==
    /\ \E h \in QueryHashes : \E a \in LookupAnswers(h) \cup LookupFailures(h) :
          qlog' = Queried(IF h = NoHash \/ h \in DOMAIN transaction_details
                          THEN NotAsked ELSE a,
                          get_transaction_status(h, a))
    /\ UNCHANGED <<now, route, roles, nonce_vars, rate_vars, sub, chain_vars, ledger_vars,
                   submitted, faults>>

QueryList ==
    /\ \E a \in QueryAddresses : qlog' = Queried(NotAsked, get_transactions(a))
    /\ UNCHANGED <<now, route, roles, nonce_vars, rate_vars, sub, chain_vars, ledger_vars,
                   submitted, faults>>

NextQuery ==
    \/ QueryAward \/ QuerySign \/ QueryAcquire \/ QuerySend \/ QueryReceipt
    \/ QueryMine \/ QueryNewService \/ QueryStatus \/ QueryList

SpecQuery == Init /\ [][NextQuery]_vars

\* C17: get_transaction_status of a hash that is not in memory returns pending
\* when the chain knows the transaction without a block number, and returns a
\* pending record, not an error, when the chain read fails with a 429.
C17_ChainReadPendingOrRateLimited ==
    \A i \in 1..Len(qlog) :
        (qlog[i].ret.op = "status" /\ qlog[i].ret.path = "chain")
            => /\ qlog[i].asked.tx = "pending" => qlog[i].ret.status = "pending"
               /\ qlog[i].asked.text = TooManyRequests
                     => qlog[i].ret.status = "pending"

\* C18: get_transactions(address) returns at most ten records, the most
\* recently submitted ones of the address, newest first.
C18_ListNewestFirst ==
    \A a \in DOMAIN pending_transactions :
        LET listed == get_transactions(a).list
            hashes == pending_transactions[a]
        IN /\ Len(listed) <= max_tracked
           /\ \A i \in 1..Len(listed) :
                 listed[i].tx_hash = hashes[Len(hashes) - i + 1]

\* C19: for a mined transaction, the record get_transaction_status builds from
\* the chain has the status, block number and gas used of the record it
\* returned from memory for the same hash.
C19_ChainRecordEqualsMemoryRecord ==
    (/\ Len(qlog) = 2
     /\ qlog[1].ret.op = "status" /\ qlog[2].ret.op = "status"
     /\ qlog[1].ret.hash = qlog[2].ret.hash
     /\ qlog[1].ret.path = "memory" /\ qlog[1].ret.block_number # None
     /\ qlog[2].ret.path = "chain"
     /\ qlog[2].asked.tx = "mined" /\ qlog[2].asked.receipt = "found")
        => /\ qlog[2].ret.status = qlog[1].ret.status
           /\ qlog[2].ret.block_number = qlog[1].ret.block_number
           /\ qlog[2].ret.gas_used = qlog[1].ret.gas_used

\* ------------------------------------------------------------- SpecGas
\* One caller, and receipts whose gas used lies around 95% of the gas limit.
OutOfGasText == <<"Transaction failed - likely out of gas or execution error">>
ExecutionFailedText == <<"Transaction execution failed on blockchain">>
GasEstimates == {50000, 21001}
GasUsedAround(gas) == {(gas * 95) \div 100 - 1, (gas * 95) \div 100,
                       (gas * 95) \div 100 + 1, gas - 1000, gas}

GasAward ==
    /\ \E est \in GasEstimates :
          award_xp(IndexThread, IndexAddress, TRUE, est, one_gwei,
                   IndexBlock, TRUE, GasSubmits)
    /\ UNCHANGED <<now, route, qlog, roles, nonce_vars, rate_vars, chain_vars, ledger_vars, faults>>

GasSign ==
    /\ send_transaction(IndexThread)
    /\ UNCHANGED <<now, route, qlog, roles, nonce_vars, rate_vars, chain_vars, ledger_vars,
                   submitted, faults>>

GasAcquire ==
    /\ exec_acquire(IndexThread)
    /\ UNCHANGED <<now, route, qlog, roles, chain_count, chain_vars, submitted, faults>>

GasSend ==
    /\ \E a \in SendAnswers(TxHash(sub[IndexThread].tx, sub[IndexThread].addr)) :
          send_call(IndexThread, a)
    /\ UNCHANGED <<now, route, qlog, roles, chain_count, receipts, rate_vars, submitted, faults>>

GasReceipt ==
    /\ \E a \in ReceiptAnswers(sub[IndexThread].hash) : receipt_call(IndexThread, a)
    /\ UNCHANGED <<now, route, qlog, roles, nonce_vars, chain_vars, rate_vars, submitted, faults>>

GasMine ==
    /\ \E h \in mempool, status \in {0, 1} : \E g \in GasUsedAround(h[3]) :
          Mine(h, status, g)
    /\ UNCHANGED <<now, route, qlog, roles, current_nonce, last_update_time, nm_lock, nm_log,
                   nm_handed, nm_reused, rate_vars, sub, ledger_vars,
                   submitted, faults>>

NextGas == GasAward \/ GasSign \/ GasAcquire \/ GasSend \/ GasReceipt \/ GasMine

SpecGas == Init /\ [][NextGas]_vars

\* C21: a receipt with status 0 whose gas used is at least 95% of the gas
\* limit makes the outcome Failed with the out-of-gas error, in the returned
\* result and in the ledger record alike; below that bound both carry the
\* plain execution failure.
C21_OutOfGasInResultAndRecord ==
    [][\A t \in Threads :
         (/\ sub[t].pc = "receipt_call" /\ sub'[t].pc = "returned"
          /\ sub'[t].result.status = "failed")
         => LET h == sub[t].hash
                kind == IF receipts[h].gasUsed * 100 >= sub[t].tx.gas * 95
                        THEN OutOfGasText ELSE ExecutionFailedText
            IN /\ receipts[h].status = 0
               /\ sub'[t].result.error = kind
               /\ transaction_details'[h].status = "failed"
               /\ transaction_details'[h].error = kind]_vars

\* ---------------------------------------------------------- SpecFacade
\* One caller of every facade call, the node answering or failing each RPC
\* call, and other admins granting and revoking roles on the contract.
FacadeAddresses == {IndexAddress, BadAddress}
Amounts == {-1, 0, 5}
Rates == {0, 7}
TokenIds == {-1, 3}
XpAmounts == {0, 99, 100, 499, 749, 750, 2000, 2001}
Levels == {0, 4}
RoleStates == [admin : BOOLEAN, minter : BOOLEAN, holders : SUBSET {IndexAddress}]

\* estimate_gas for the contract function a facade call sends.
EstimateOf(op) ==
    CASE op = "award_custom_xp" -> 52000
      [] op = "update_reward_rate" -> 31000
      [] op = "grant_minter_role" -> 46000
      [] op = "mint_achievement" -> 120000
      [] OTHER -> 38000

FacadeRoles ==
    /\ \E r \in RoleStates : r # roles /\ roles' = r
    /\ UNCHANGED <<now, nonce_vars, rate_vars, sub, chain_vars, ledger_vars,
                   submitted, faults, route, qlog>>

FacadeAward ==
    /\ \E a \in FacadeAddresses, has_role \in {roles.minter, TRUE},
          est \in {None, IndexEstimate}, sim_ok \in BOOLEAN :
          award_xp(IndexThread, a, has_role, est, one_gwei, IndexBlock, sim_ok,
                   FacadeSubmits)
    /\ UNCHANGED <<now, route, qlog, roles, nonce_vars, rate_vars, chain_vars,
                   ledger_vars, faults>>

FacadeAwardCustom ==
    /\ \E a \in FacadeAddresses, amount \in Amounts :
          award_custom_xp(IndexThread, a, amount, FacadeSubmits)
    /\ UNCHANGED <<now, route, qlog, roles, nonce_vars, rate_vars, chain_vars,
                   ledger_vars, faults>>

FacadeUpdateRate ==
    /\ \E new_rate \in Rates : update_reward_rate(IndexThread, new_rate, FacadeSubmits)
    /\ UNCHANGED <<now, route, qlog, roles, nonce_vars, rate_vars, chain_vars,
                   ledger_vars, faults>>

FacadeGrant ==
    /\ grant_minter_role(IndexThread, IndexAddress, FacadeSubmits)
    /\ UNCHANGED <<now, route, qlog, roles, nonce_vars, rate_vars, chain_vars,
                   ledger_vars, faults>>

FacadeMint ==
    /\ \E a \in FacadeAddresses, level \in Levels :
          mint_achievement(IndexThread, a, level, FacadeSubmits)
    /\ UNCHANGED <<now, route, qlog, roles, nonce_vars, rate_vars, chain_vars,
                   ledger_vars, faults>>

FacadeUpdateMetadata ==
    /\ \E token_id \in TokenIds : update_metadata(IndexThread, token_id, FacadeSubmits)
    /\ UNCHANGED <<now, route, qlog, roles, nonce_vars, rate_vars, chain_vars,
                   ledger_vars, faults>>

FacadeAwardByXp ==
    /\ \E a \in FacadeAddresses, xp_amount \in XpAmounts :
          award_achievement_by_xp(IndexThread, a, xp_amount, FacadeSubmits)
    /\ UNCHANGED <<now, route, qlog, roles, nonce_vars, rate_vars, chain_vars,
                   ledger_vars, faults>>

FacadeCalls ==
    /\ \E admin \in HasRoleAnswers(roles.admin),
          role \in HasRoleAnswers(IF sub[IndexThread].op = "grant_minter_role"
                                  THEN sub[IndexThread].addr \in roles.holders
                                  ELSE roles.minter),
          est \in {None, EstimateOf(sub[IndexThread].op)}, sim_ok \in BOOLEAN :
          facade_calls(IndexThread, admin, role, est, one_gwei, IndexBlock, sim_ok)
    /\ UNCHANGED <<now, route, qlog, roles, nonce_vars, rate_vars, chain_vars,
                   ledger_vars, submitted, faults>>

FacadeSign ==
    /\ send_transaction(IndexThread)
    /\ UNCHANGED <<now, route, qlog, roles, nonce_vars, rate_vars, chain_vars,
                   ledger_vars, submitted, faults>>

FacadeAcquire ==
    /\ exec_acquire(IndexThread)
    /\ UNCHANGED <<now, route, qlog, roles, chain_count, chain_vars, submitted, faults>>

FacadeSend ==
    /\ \E a \in SendAnswers(TxHash(sub[IndexThread].tx, sub[IndexThread].addr)) :
          send_call(IndexThread, a)
    /\ UNCHANGED <<now, route, qlog, roles, chain_count, receipts, rate_vars,
                   submitted, faults>>

FacadeReceipt ==
    /\ \E a \in ReceiptAnswers(sub[IndexThread].hash) : receipt_call(IndexThread, a)
    /\ UNCHANGED <<now, route, qlog, roles, nonce_vars, chain_vars, rate_vars,
                   submitted, faults>>

FacadeMine ==
    /\ \E h \in mempool, status \in {0, 1} : Mine(h, status, h[3] \div 2)
    /\ UNCHANGED <<now, route, qlog, roles, current_nonce, last_update_time, nm_lock,
                   nm_log, nm_handed, nm_reused, rate_vars, sub, ledger_vars,
                   submitted, faults>>

NextFacade ==
    \/ FacadeRoles \/ FacadeAward \/ FacadeAwardCustom \/ FacadeUpdateRate
    \/ FacadeGrant \/ FacadeMint \/ FacadeUpdateMetadata \/ FacadeAwardByXp
    \/ FacadeCalls \/ FacadeSign \/ FacadeAcquire \/ FacadeSend \/ FacadeReceipt
    \/ FacadeMine

SpecFacade == Init /\ [][NextFacade]_vars

\* C22: award_custom_xp with an amount of 0 or less returns a validation
\* error, and returns it before any RPC call: the call is never at its first
\* RPC call or beyond.
C22_NonPositiveAmountIsValidationError ==
    [][\A t \in Threads :
         /\ (sub'[t].op = "award_custom_xp" /\ sub'[t].arg <= 0)
               => sub'[t].pc \notin {"calling", "built"}
         /\ (sub[t].op = "award_custom_xp" /\ sub[t].arg <= 0
                /\ sub'[t].pc = "returned")
               => sub'[t].result.error_category = "validation_error"]_vars

\* C23: award_achievement_by_xp with a total below the Beginner threshold
\* 100 returns a validation error with no transaction hash and makes no RPC
\* call: only a call whose total reaches 100 gets as far as mint_achievement.
C23_BelowBeginnerIsValidationError ==
    \A t \in Threads :
        /\ sub[t].xp_amount # None => sub[t].xp_amount >= 100
        /\ \A xp_amount \in XpAmounts :
              (sub[t].pc = "returned" /\ sub[t].result.error = NotQualified(xp_amount))
              => /\ xp_amount < 100
                 /\ sub[t].result.status = "error"
                 /\ sub[t].result.error_category = "validation_error"
                 /\ sub[t].result.tx_hash = NoHash
C23_Witness ==
    \E t \in Threads :
        /\ sub[t].pc = "returned"
        /\ sub[t].result.error = NotQualified(99)
        /\ sub[t].result.error_category = "validation_error"

\* C24: grant_minter_role for an address that holds MINTER_ROLE, called by a
\* signer that holds DEFAULT_ADMIN_ROLE, returns success with no transaction
\* hash (or the error of a hasRole call that failed), builds no transaction
\* and leaves the ledger, the nonce state and the node's mempool alone.
C24_GrantToHolderSendsNothing ==
    [][\A t \in Threads :
         (/\ sub[t].pc = "calling" /\ sub[t].op = "grant_minter_role"
          /\ roles.admin /\ sub[t].addr \in roles.holders
          /\ sub'[t] # sub[t])
         => /\ sub'[t].pc = "returned"
            /\ sub'[t].result.tx_hash = NoHash
            /\ \/ sub'[t].result.status = "success"
               \/ sub'[t].result.error = ConnectionError
            /\ UNCHANGED <<ledger_vars, nonce_vars, chain_vars>>]_vars
C24_Witness ==
    \E t \in Threads :
        /\ sub[t].pc = "returned" /\ sub[t].result = AlreadyGranted
        /\ roles.admin /\ IndexAddress \in roles.holders

\* C25: every response of a facade call is a success or has status "error"
\* and an error category.
C25_FailuresAreErrorsWithCategory ==
    \A t \in Threads :
        sub[t].pc = "returned" =>
            \/ sub[t].result.status = "success"
            \/ /\ sub[t].result.status = "error"
               /\ sub[t].result.error_category # "none"

\* C27: a mint_achievement whose transaction is confirmed returns the token
\* id of the Transfer log in the receipt.
C27_MintReturnsTokenId ==
    [][\A t \in Threads :
         (/\ sub[t].pc = "receipt_call" /\ sub[t].op = "mint_achievement"
          /\ sub'[t].pc = "returned" /\ sub'[t].result.status = "success")
         => sub'[t].result.token_id = MintLogs(sub[t].hash)[2].topics[4]]_vars

\* C28: a facade call whose signer lacks the role it needs returns a
\* permission error with no transaction hash and builds no transaction.
LacksRole(s) ==
    \/ s.op = "award_custom_xp" /\ ~roles.minter
    \/ s.op \in {"update_reward_rate", "grant_minter_role"} /\ ~roles.admin
C28_MissingRoleIsPermissionError ==
    [][\A t \in Threads :
         (sub[t].pc = "calling" /\ LacksRole(sub[t]) /\ sub'[t] # sub[t])
         => /\ sub'[t].pc = "returned"
            /\ sub'[t].result.error_category = "permission_error"
            /\ sub'[t].result.tx_hash = NoHash]_vars

\* C31: when the node answers the send with "nonce too low", _send_transaction
\* calls handle_nonce_error once and returns the category nonce_too_low with
\* no transaction hash; nothing more is sent within that call.
NonceTooLowAnswered(t) ==
    /\ sub[t].pc = "send_call"
    /\ \/ sub'[t].pc = "blocked"
       \/ /\ sub'[t].pc = "returned"
          /\ Contains(sub'[t].result.error, "nonce too low")
C31_NonceTooLowReturnsOnce ==
    [][\A t \in Threads :
         NonceTooLowAnswered(t)
         => /\ sub'[t].pc = "returned"
            /\ sub'[t].result.error_category = "nonce_too_low"
            /\ sub'[t].result.tx_hash = NoHash
            /\ mempool' = mempool
            /\ nm_log' = Logged(nm_log'[Len(nm_log')])
            /\ nm_log'[Len(nm_log')].op = "handle"]_vars

\* C32: at most one submission of the signer is between its signing and the
\* return of its send.
BetweenSignAndSend(s) == s.pc \in {"send_acquire", "send_sleep", "send_call"}
C32_OneSubmissionInSend ==
    \A t, u \in Threads :
        BetweenSignAndSend(sub[t]) /\ BetweenSignAndSend(sub[u]) => t = u

\* C33: a facade call whose gas estimation raises goes on with a constant
\* gas limit instead of returning the error.  For award_custom_xp,
\* mint_achievement and update_metadata the estimation is the only remote
\* call before the build that can raise into the caller, so the step from
\* "calling" never returns the connection error for them.
EstimateOnly == {"award_custom_xp", "mint_achievement", "update_metadata"}
C33_EstimateNeverFails ==
    [][\A t \in Threads :
         (sub[t].pc = "calling" /\ sub[t].op \in EstimateOnly /\ sub'[t] # sub[t])
         => ~(sub'[t].pc = "returned" /\ sub'[t].result.error = ConnectionError)]_vars

\* ----------------------------------------------------------- SpecRoute
\* One request to the award route, with the default max_retries or with one
\* of its own, while other transactions of the signer are mined: the sends
\* are refused with "nonce too low" and the route's loop goes round.
RouteThread == 1

RouteTick ==
    /\ route[RouteThread].retrying
    /\ now < StartTime + Seconds(RouteSeconds)
    /\ now' = now + 1
    /\ UNCHANGED <<nonce_vars, rate_vars, tx_vars>>

RouteChainMine ==
    /\ sub[RouteThread].pc = "send_call"
    /\ NonceOf(TxHash(sub[RouteThread].tx, sub[RouteThread].addr)) = chain_count
    /\ chain_count < RouteChain
    /\ chain_count' = chain_count + 1
    /\ UNCHANGED <<now, current_nonce, last_update_time, nm_lock, nm_log, nm_handed,
                   nm_reused, rate_vars, tx_vars>>

RouteAward ==
    /\ route[RouteThread].addr = "none"
    /\ \E n \in {max_retries, RouteMaxRetries} :
          route_request_with(RouteThread, IndexAddress, n)
    /\ award_xp(RouteThread, IndexAddress, TRUE, IndexEstimate, one_gwei,
                IndexBlock, TRUE, 1)
    /\ UNCHANGED <<now, qlog, roles, nonce_vars, rate_vars, chain_vars, ledger_vars, faults>>

RouteBackoff ==
    /\ route_backoff(RouteThread)
    /\ UNCHANGED <<now, qlog, roles, nonce_vars, rate_vars, sub, chain_vars, ledger_vars,
                   submitted, faults>>

RouteRetry ==
    /\ route_retry(RouteThread)
    /\ award_xp(RouteThread, route[RouteThread].addr, TRUE, IndexEstimate, one_gwei,
                IndexBlock, TRUE, submitted + 1)
    /\ UNCHANGED <<now, qlog, roles, nonce_vars, rate_vars, chain_vars, ledger_vars, faults>>

RouteSign ==
    /\ send_transaction(RouteThread)
    /\ UNCHANGED <<now, route, qlog, roles, nonce_vars, rate_vars, chain_vars, ledger_vars,
                   submitted, faults>>

RouteAcquire ==
    /\ exec_acquire(RouteThread)
    /\ UNCHANGED <<now, route, qlog, roles, chain_count, chain_vars, submitted, faults>>

RouteSend ==
    /\ \E a \in SendAnswers(TxHash(sub[RouteThread].tx, sub[RouteThread].addr)) :
          send_call(RouteThread, a)
    /\ UNCHANGED <<now, route, qlog, roles, chain_count, receipts, rate_vars, submitted, faults>>

RouteReceipt ==
    /\ \E a \in ReceiptAnswers(sub[RouteThread].hash) : receipt_call(RouteThread, a)
    /\ UNCHANGED <<now, route, qlog, roles, nonce_vars, chain_vars, rate_vars, submitted, faults>>

RouteMine ==
    /\ \E h \in mempool, status \in {0, 1} : Mine(h, status, h[3] \div 2)
    /\ UNCHANGED <<now, route, qlog, roles, current_nonce, last_update_time, nm_lock, nm_log,
                   nm_handed, nm_reused, rate_vars, sub, ledger_vars,
                   submitted, faults>>

NextRoute ==
    \/ RouteTick \/ RouteChainMine \/ RouteAward \/ RouteBackoff \/ RouteRetry
    \/ RouteSign \/ RouteAcquire \/ RouteSend \/ RouteReceipt \/ RouteMine

SpecRoute == Init /\ [][NextRoute]_vars

\* C34: the route's loop calls the facade again only after a nonce kind or
\* rate_limited, makes at most 3 retries (4 calls), and ends after any other
\* result.
C34_RouteLoopBounded ==
    /\ \A t \in Threads : route[t].retries <= 3
    /\ \A t \in Threads :
          route[t].retrying =>
              sub[t].pc = "returned"
              /\ (NonceKind(sub[t].result) \/ RateKind(sub[t].result))

\* C35: for a total of at least 100, award_achievement_by_xp mints the level
\* with the greatest threshold the total reaches: Beginner 100, Intermediate
\* 500, Advanced 750, Expert 1000, Master 2000.
TierOf(total) ==
    CHOOSE i \in 0..4 :
        /\ achievement_thresholds[i + 1] <= total
        /\ \A j \in 0..4 : achievement_thresholds[j + 1] <= total => j <= i
C35_MintsGreatestTierReached ==
    /\ achievement_thresholds = <<100, 500, 750, 1000, 2000>>
    /\ \A t \in Threads :
          sub[t].xp_amount # None
          => /\ sub[t].op = "mint_achievement"
             /\ sub[t].arg = TierOf(sub[t].xp_amount)
    /\ \A t \in Threads :
          (sub[t].pc = "returned" /\ sub[t].result.error_category = "validation_error")
          => \E total \in XpAmounts :
                total < 100 /\ sub[t].result.error = NotQualified(total)
C35_Witness ==
    \E t \in Threads :
        /\ sub[t].pc = "built" /\ sub[t].op = "mint_achievement"
        /\ sub[t].xp_amount = 749 /\ sub[t].arg = 1

\* C36: a facade call whose simulation (the eth_call of the built
\* transaction) fails returns an error; no transaction is signed or sent and
\* the ledger stays as it was.
C36_SimulationFailureStops ==
    [][/\ \A admin, role \in {"yes", "no", "raises"},
             est \in {None, EstimateOf(sub[IndexThread].op)} :
            facade_calls(IndexThread, admin, role, est, one_gwei, IndexBlock, FALSE)
            => /\ sub'[IndexThread].pc = "returned"
               /\ sub'[IndexThread].result.tx_hash = NoHash
               /\ sub'[IndexThread].result.status = "error"
                     \/ sub'[IndexThread].result = AlreadyGranted
               /\ UNCHANGED <<ledger_vars, mempool, nonce_vars>>
       /\ \A a \in FacadeAddresses, has_role \in BOOLEAN, est \in {None, IndexEstimate} :
            award_xp(IndexThread, a, has_role, est, one_gwei, IndexBlock, FALSE,
                     FacadeSubmits)
            => /\ sub'[IndexThread].pc = "returned"
               /\ sub'[IndexThread].result.tx_hash = NoHash
               /\ sub'[IndexThread].result.status = "error"
               /\ UNCHANGED <<ledger_vars, mempool, nonce_vars>>
       /\ \A t \in Threads :
            (sub'[t].pc = "returned" /\ sub'[t].result.error = SimulationFailed)
            => /\ sub'[t].result.status = "error"
               /\ sub'[t].result.tx_hash = NoHash]_vars
C36_Witness ==
    \E t \in Threads :
        /\ sub[t].pc = "returned" /\ sub[t].result.error = SimulationFailed
        /\ sub[t].result.tx_hash = NoHash
        /\ mempool = {} /\ pending_transactions = <<>>

\* C37: the acquire(1) calls of a limiter that have returned True by now are
\* at most max_tokens + refill_rate * (now - t0), t0 the limiter's
\* construction, whatever the interleaving of its callers; at most
\* max_requests of them succeed while no time has passed.
C37_GrantsWithinBucketAndRefill ==
    /\ Seconds(granted.count) * refill_interval
          <= max_tokens * refill_interval + refill_rate * (now - granted.since)
    /\ now = granted.since => granted.count <= max_requests
C37_Witness ==
    /\ granted.count = max_requests + 2
    /\ now = granted.since + Seconds(2)
    /\ \A t \in Threads : acq[t].pc = "returned" /\ acq[t].ret /\ acq[t].n = 1

\* C38: the two ledger maps agree in every reachable state: each hash in
\* pending_transactions[a] has a record in transaction_details, and each
\* record is listed under the address it stores.
C38_LedgerMapsAgree ==
    /\ \A a \in DOMAIN pending_transactions :
          \A i \in 1..Len(pending_transactions[a]) :
              pending_transactions[a][i] \in DOMAIN transaction_details
    /\ \A h \in DOMAIN transaction_details :
          LET a == transaction_details[h].address
          IN /\ a \in DOMAIN pending_transactions
             /\ \E i \in 1..Len(pending_transactions[a]) :
                   pending_transactions[a][i] = h

\* C39: a send that ends without a transaction hash (nonce too low,
\* underpriced replacement, rate limit or any other error) leaves
\* pending_transactions and transaction_details as they were.
SendStage(s) == s.pc \in {"send_acquire", "send_sleep", "send_call"}
C39_FailedSendLeavesLedger ==
    [][\A t \in Threads :
         (SendStage(sub[t]) /\ sub'[t].pc \in {"returned", "blocked"})
         => /\ UNCHANGED <<pending_transactions, transaction_details>>
            /\ sub'[t].pc = "returned" => sub'[t].result.tx_hash = NoHash]_vars
C39_Witness ==
    \E t \in Threads :
        /\ sub[t].pc = "returned" /\ sub[t].result.tx_hash = NoHash
        /\ sub[t].result.error_category = "nonce_too_low"
        /\ \E a \in DOMAIN pending_transactions :
              Len(pending_transactions[a]) = 1 /\ NonceOf(pending_transactions[a][1]) = 0
        /\ Cardinality(DOMAIN transaction_details) = 1

\* ------------------------------------------------------------ SpecWait
\* One submission of thread 1 through execute_with_rate_limit, with 429
\* answers, while thread 2 calls acquire(1) on the same limiter.  Threads run
\* and time passes: the clock, the end of a sleep, the acquire and the RPC
\* answers are weakly fair.
WaitCaller == 2

WaitTick ==
    /\ \/ now < StartTime + Seconds(WaitSeconds)
       \/ \E t \in Threads : acq[t].pc = "sleeping" /\ now < acq[t].wake
       \/ sub[IndexThread].pc \in {"send_acquire", "receipt_acquire"}
             /\ now < sub[IndexThread].wake
    /\ now' = now + 1
    /\ UNCHANGED <<nonce_vars, rate_vars, tx_vars>>

WaitDirect ==
    /\ now < StartTime + Seconds(WaitSeconds)
    /\ \E mw \in MaxWaits : acquire_enter(WaitCaller, 1, TRUE, mw)
    /\ UNCHANGED <<now, nonce_vars, tx_vars>>

WaitDirectWake ==
    /\ acquire_wake(WaitCaller)
    /\ UNCHANGED <<now, nonce_vars, tx_vars>>

WaitAward ==
    /\ award_xp(IndexThread, IndexAddress, TRUE, IndexEstimate, one_gwei,
                IndexBlock, TRUE, 1)
    /\ UNCHANGED <<now, route, qlog, roles, nonce_vars, rate_vars, chain_vars, ledger_vars, faults>>

WaitSign ==
    /\ send_transaction(IndexThread)
    /\ UNCHANGED <<now, route, qlog, roles, nonce_vars, rate_vars, chain_vars, ledger_vars,
                   submitted, faults>>

WaitAcquire ==
    /\ exec_acquire(IndexThread)
    /\ UNCHANGED <<now, route, qlog, roles, chain_count, chain_vars, submitted, faults>>

WaitWake ==
    /\ exec_wake(IndexThread)
    /\ UNCHANGED <<now, route, qlog, roles, chain_count, chain_vars, submitted, faults>>

WaitSend ==
    /\ \E a \in SendAnswers(TxHash(sub[IndexThread].tx, sub[IndexThread].addr)) :
          send_call(IndexThread, a)
    /\ UNCHANGED <<now, route, qlog, roles, chain_count, receipts, rate_vars, submitted, faults>>

WaitSendFault ==
    /\ faults < WaitFaults
    /\ faults' = faults + 1
    /\ send_call(IndexThread, Failure(TooManyRequests, NoHash))
    /\ UNCHANGED <<now, route, qlog, roles, chain_count, receipts, rate_vars, submitted>>

WaitReceipt ==
    /\ \E a \in ReceiptAnswers(sub[IndexThread].hash) : receipt_call(IndexThread, a)
    /\ UNCHANGED <<now, route, qlog, roles, nonce_vars, chain_vars, rate_vars, submitted, faults>>

WaitMine ==
    /\ \E h \in mempool : Mine(h, 1, h[3] \div 2)
    /\ UNCHANGED <<now, route, qlog, roles, current_nonce, last_update_time, nm_lock, nm_log,
                   nm_handed, nm_reused, rate_vars, sub, ledger_vars,
                   submitted, faults>>

NextWait ==
    \/ WaitTick \/ WaitDirect \/ WaitDirectWake \/ WaitAward \/ WaitSign
    \/ WaitAcquire \/ WaitWake \/ WaitSend \/ WaitSendFault \/ WaitReceipt \/ WaitMine

SpecWait ==
    /\ Init /\ [][NextWait]_vars
    /\ WF_vars(WaitTick) /\ WF_vars(WaitDirectWake) /\ WF_vars(WaitWake)
    /\ WF_vars(WaitAcquire) /\ WF_vars(WaitSend) /\ WF_vars(WaitReceipt)

\* C40: every acquire returns; it sleeps at most once and for no longer than
\* max_wait, holds no lock while it sleeps, and does not wait in a loop;
\* execute_with_rate_limit returns or raises after at most retry_count + 1
\* invocations.
C40_AcquireAndExecuteReturn ==
    /\ [][\A t \in Threads :
            (acq[t].pc = "sleeping" /\ acq'[t] # acq[t])
            => /\ acq'[t].pc = "returned" /\ acq'[t].slept
               /\ ~acq[t].slept]_vars
    /\ [](\A t \in Threads :
            /\ acq[t].pc = "sleeping"
                  => /\ acq[t].wait_time <= Seconds(acq[t].max_wait)
                     /\ acq[t].wake <= now + acq[t].wait_time
            /\ sub[t].attempt <= retry_count)
    /\ \A t \in Threads : (acq[t].pc = "sleeping") ~> (acq[t].pc = "returned")
    /\ SendStage(sub[IndexThread]) ~> ~SendStage(sub[IndexThread])
C40_Witness ==
    /\ acq[WaitCaller].pc = "returned" /\ acq[WaitCaller].slept /\ ~acq[WaitCaller].ret
    /\ acq[IndexThread].pc = "returned" /\ acq[IndexThread].ret
    /\ granted.count = max_requests + 1
    /\ now = granted.since + Seconds(1)
====
